---- MODULE Spec2Model ----
(***************************************************************************)
(* Vocabulary extension: the resilient HTTP client (apiRequest,            *)
(* fetchWithTimeout, delay), the TTL cache (checkWordWithCache,            *)
(* getCollocationsWithCache, clearExpiredCache, initDatabase), the word    *)
(* queue (handleAddWord, the context-menu handler, handleGenerate), the    *)
(* keychain (storeApiKey, retrieveApiKey, removeApiKey, migrateApiKey,     *)
(* encrypt, decrypt), the server API (getServerUrl and the operations      *)
(* built on it) and the options page (handleSave).                         *)
(*                                                                         *)
(* Execution model: one JavaScript event loop.  Every action below is one  *)
(* run-to-completion step: the code between two awaits of one async        *)
(* function, or one operation of the host (the transport answers, a timer  *)
(* fires, an IndexedDB or chrome.storage request is carried out).          *)
(***************************************************************************)
EXTENDS Integers, Sequences, FiniteSets, TLC

VARIABLES
    \* ---- apiRequest (gemini.ts:171-235) ----
    hpc,        \* where the call is: idle, fetching, reading, retryWait, success, failed
    opts,       \* the options the call was made with, and its url
    attempt,    \* the loop variable of the for loop
    attempts,   \* history: number of fetchWithTimeout calls made by this call
    delays,     \* history: the arguments of delay(), in order
    elapsed,    \* ms since the current attempt's fetchWithTimeout was called
    lastError,  \* the local variable lastError
    result,     \* what the call returned or threw
    trace,      \* history: the outcome of every attempt, in order
    \* ---- the caches (cache strategies and db) ----
    now,             \* Date.now()
    ticks,           \* number of times the model has advanced the clock
    calls,           \* number of cached reads and sweeps started so far
    wordCache,       \* db.wordCache: word -> WordCacheEntry
    collocationCache,\* db.collocationCache: word -> CollocationCacheEntry
    rd,              \* the calls of checkWordWithCache / getCollocationsWithCache
    sw,              \* the run of clearExpiredCache
    \* ---- initDatabase and its hourly interval ----
    idb,             \* where initDatabase is, and how often its interval fired
    \* ---- the word queue (popup and context menu) ----
    queue,           \* db.queue: word -> WordQueueItem
    hd,              \* the add handlers in progress
    adds,            \* number of add handlers started so far
    \* ---- the keychain (security/keychain.ts) ----
    local,           \* chrome.storage.local: what is stored under secure_aiApiKey
    sync,            \* chrome.storage.sync: what is stored under aiApiKey
    kc,              \* the keychain call in progress
    keyOps,          \* number of keychain calls started so far
    lastOp,          \* history: the keychain call that returned last
    tampered,        \* history: the stored payload was altered after it was written
    \* ---- the server API (api/server) and the options page ----
    config,          \* chrome.storage.sync: what is stored under serverUrl and theme
    api,             \* the server API call in progress
    requests,        \* history: the requests handed to the network, in order
    apiOps,          \* number of server API calls started so far
    opt,             \* the run of handleSave
    saves,           \* number of handleSave runs started so far
    \* ---- handleGenerate (popup) ----
    gen,             \* the run of handleGenerate
    gens             \* number of handleGenerate runs started so far

httpVars == <<hpc, opts, attempt, attempts, delays, elapsed, lastError, result, trace>>

cacheVars == <<now, ticks, calls, wordCache, collocationCache, rd, sw>>

timerVars == <<idb>>

queueVars == <<queue, hd, adds>>

keyVars == <<local, sync, kc, keyOps, lastOp, tampered>>

serverVars == <<config, api, requests, apiOps, opt, saves>>

generateVars == <<gen, gens>>

vars == <<httpVars, cacheVars, timerVars, queueVars, keyVars, serverVars, generateVars>>

\* What the actions of one part leave alone.
nonHttpVars == <<cacheVars, timerVars, queueVars, keyVars, serverVars, generateVars>>

nonCacheVars == <<httpVars, timerVars, queueVars, keyVars, serverVars, generateVars>>

nonDbVars == <<httpVars, queueVars, keyVars, serverVars, generateVars>>

nonQueueVars ==
    <<httpVars, timerVars, keyVars, serverVars, generateVars,
      ticks, calls, wordCache, collocationCache, rd, sw>>

nonKeyVars == <<httpVars, cacheVars, timerVars, queueVars, serverVars, generateVars>>

nonServerVars == <<httpVars, cacheVars, timerVars, queueVars, generateVars>>

nonGenerateVars ==
    <<httpVars, timerVars, keyVars, serverVars,
      now, ticks, calls, wordCache, collocationCache, rd, sw>>

(***************************************************************************)
(* Bounds of the model.                                                    *)
(***************************************************************************)
MaxRetries == 3      \* options.retries ranges over 0..MaxRetries
MaxOverrun == 2      \* a body read is followed for this many ms past the timeout
MaxTicks == 2        \* the clock of the caches is advanced at most this many times
HorizonDays == 8     \* and not past this many days
MaxCalls == 3        \* cached reads and sweeps started in one behaviour
MaxFirings == 3      \* firings of the hourly interval in one behaviour
MaxAdds == 3         \* add handlers started in one behaviour
MaxKeyOps == 3       \* keychain calls started in one behaviour
MaxSaves == 2        \* clicks on Save in one behaviour
MaxGens == 2         \* clicks on Generate in one behaviour
MaxApiOps == 2       \* server API calls started in one behaviour

(***************************************************************************)
(* Defaults of RequestOptions.                                             *)
(***************************************************************************)
DefaultTimeout == 30000
DefaultRetryDelay == 1000
\* Faulty variant: 400 is retried too.
RetryOnWith400 == {400, 408, 429, 500, 502, 503, 504}

retryOn == {408, 429, 500, 502, 503, 504}

\* The inputs of a call.  Timeouts are the default and those the callers pass;
\* retryDelay is the default and one other positive delay.
Urls == {"https://server/api/check-word", "https://ai/generateContent"}
Timeouts == {DefaultTimeout, 10000}
RetryDelays == {DefaultRetryDelay, 250}
RetriesRange == 0..MaxRetries
Statuses == {200, 400, 500, 503}

RECURSIVE Pow2(_)
Pow2(n) == IF n = 0 THEN 1 ELSE 2 * Pow2(n - 1)

(***************************************************************************)
(* Errors: name, message, and APIError's statusCode and endpoint           *)
(* (0 and "" stand for undefined).                                         *)
(***************************************************************************)
MkError(name, message, statusCode, endpoint) ==
    [name |-> name, message |-> message, statusCode |-> statusCode, endpoint |-> endpoint]

NoError == MkError("null", "", 0, "")

APIError(status, url) == MkError("APIError", "HTTP error", status, url)

TimeoutError == MkError("TimeoutError", "Request timeout", 0, "")

NetworkError(message) == MkError("NetworkError", message, 0, "")

TypeError == MkError("TypeError", "Failed to fetch", 0, "")

SyntaxError == MkError("SyntaxError", "Unexpected token", 0, "")

NoResult == [kind |-> "none", error |-> NoError]

Returned == [kind |-> "data", error |-> NoError]

Thrown(e) == [kind |-> "throw", error |-> e]

\* One entry of the history of attempts: how the attempt ended ("status": a response
\* whose body has not been read; "parsed"; or the name of the error), and the
\* status of the response, 0 when there was none.
Outcome(o, status) == [o |-> o, status |-> status]

\* The attempt in progress ends: its entry of the history gets its final outcome.
EndAttempt(tr, o) == [tr EXCEPT ![Len(tr)].o = o]

(***************************************************************************)
(* The decisions of apiRequest.                                            *)
(***************************************************************************)
\* response.ok
ResponseOk(status) == status >= 200 /\ status <= 299

\* Faulty variants: the remaining attempts are not looked at; off by one.
ShouldRetryStatusAlways(a, retries, status) == status \in retryOn

ShouldRetryStatusInclusive(a, retries, status) == a <= retries /\ status \in retryOn

\* gemini.ts:192
ShouldRetryStatus(a, retries, status) == a < retries /\ status \in retryOn

\* Faulty variants: no backoff; linear backoff.
BackoffDelayConstant(retryDelay, a) == retryDelay

BackoffDelayLinear(retryDelay, a) == retryDelay * (a + 1)

\* gemini.ts:193 and 217: retryDelay * Math.pow(2, attempt)
BackoffDelay(retryDelay, a) == retryDelay * Pow2(a)

\* Faulty variant: everything but an APIError is retried.
RetryableErrorNotAPI(e) == e.name # "APIError"

\* gemini.ts:216
RetryableError(e) == e.name \in {"TimeoutError", "TypeError"}

\* gemini.ts:211
LastAttempt(a, retries) == a = retries

\* gemini.ts:185: the condition of the for loop
LoopContinues(a, retries) == a <= retries

\* Faulty variant: a TimeoutError is wrapped in NetworkError too.
FinalErrorOnlyAPI(e) ==
    IF e.name = "APIError" THEN e ELSE NetworkError(e.message)

\* gemini.ts:227-232: what is thrown once the loop is left with lastError set
FinalError(e) ==
    IF e.name \in {"TimeoutError", "APIError"} THEN e ELSE NetworkError(e.message)

\* fetchWithTimeout clears its timer as soon as fetch settles (gemini.ts:253, 256):
\* the timer is armed only while fetch itself is pending.
TimerArmed(pc) == pc = "fetching"

\* The instants of an attempt that the model follows: timeout-1, timeout, and each
\* ms after it.
NextInstant(e, timeout) == IF e < timeout - 1 THEN timeout - 1 ELSE e + 1

(***************************************************************************)
(* await delay(retryDelay * 2^attempt); continue                           *)
(***************************************************************************)
Backoff ==
    /\ hpc' = "retryWait"
    /\ delays' = Append(delays, BackoffDelay(opts.retryDelay, attempt))
    /\ UNCHANGED <<attempt, attempts, elapsed, result>>

\* break, then gemini.ts:227-234
LeaveLoop(e) ==
    /\ hpc' = "failed"
    /\ result' = Thrown(FinalError(e))
    /\ UNCHANGED <<attempt, attempts, delays, elapsed>>

\* The catch block, gemini.ts:207-223.
Catch(e) ==
    /\ lastError' = e
    /\ IF LastAttempt(attempt, opts.retries)
         THEN LeaveLoop(e)
         ELSE IF RetryableError(e) THEN Backoff ELSE LeaveLoop(e)

(***************************************************************************)
(* Actions of apiRequest.                                                  *)
(***************************************************************************)
\* The call: the loop is entered (0 <= retries) and the first fetch is issued.
ApiRequest(url, retries, retryDelay, timeout) ==
    /\ hpc = "idle"
    /\ opts' = [url |-> url, retries |-> retries, retryDelay |-> retryDelay,
                timeout |-> timeout]
    /\ hpc' = "fetching"
    /\ attempt' = 0
    /\ attempts' = 1
    /\ delays' = <<>>
    /\ elapsed' = 0
    /\ lastError' = NoError
    /\ result' = NoResult
    /\ trace' = <<>>
    /\ UNCHANGED nonHttpVars

\* Time passes while the transport call or the body read is pending.  The timer of
\* fetchWithTimeout fires at `timeout`: while it is armed time does not pass it.
Elapse ==
    /\ hpc \in {"fetching", "reading"}
    /\ LET e == NextInstant(elapsed, opts.timeout) IN
        /\ TimerArmed(hpc) => e <= opts.timeout
        /\ e <= opts.timeout + MaxOverrun
        /\ elapsed' = e
    /\ UNCHANGED <<hpc, opts, attempt, attempts, delays, lastError, result, trace>>
    /\ UNCHANGED nonHttpVars

\* fetch resolves with a response (gemini.ts:187-205).
FetchResponds(status) ==
    /\ hpc = "fetching"
    /\ trace' = Append(trace, Outcome("status", status))
    /\ IF ~ResponseOk(status)
         THEN IF ShouldRetryStatus(attempt, opts.retries, status)
                THEN Backoff /\ UNCHANGED lastError
                ELSE Catch(APIError(status, opts.url))
         ELSE /\ hpc' = "reading"
              /\ UNCHANGED <<attempt, attempts, delays, elapsed, lastError, result>>
    /\ UNCHANGED opts
    /\ UNCHANGED nonHttpVars

\* fetch rejects with a TypeError: a transport-level failure.
FetchFails ==
    /\ hpc = "fetching"
    /\ trace' = Append(trace, Outcome("TypeError", 0))
    /\ Catch(TypeError)
    /\ UNCHANGED opts
    /\ UNCHANGED nonHttpVars

\* The timer fires: controller.abort(), fetch rejects with AbortError, which
\* fetchWithTimeout turns into a TimeoutError (gemini.ts:246, 257-259).
TimerFires ==
    /\ TimerArmed(hpc)
    /\ hpc \in {"fetching", "reading"}
    /\ elapsed >= opts.timeout
    /\ trace' = IF hpc = "fetching" THEN Append(trace, Outcome("TimeoutError", 0))
                                   ELSE EndAttempt(trace, "TimeoutError")
    /\ Catch(TimeoutError)
    /\ UNCHANGED opts
    /\ UNCHANGED nonHttpVars

\* response.json() resolves: return data (gemini.ts:205-206).
JsonParsed ==
    /\ hpc = "reading"
    /\ hpc' = "success"
    /\ result' = Returned
    /\ trace' = EndAttempt(trace, "parsed")
    /\ UNCHANGED <<opts, attempt, attempts, delays, elapsed, lastError>>
    /\ UNCHANGED nonHttpVars

\* response.json() rejects: the body is not JSON (SyntaxError), or the connection
\* broke while the body was read (TypeError).
JsonFails(e) ==
    /\ hpc = "reading"
    /\ trace' = EndAttempt(trace, e.name)
    /\ Catch(e)
    /\ UNCHANGED opts
    /\ UNCHANGED nonHttpVars

\* delay() resolves; continue: attempt++, then the loop condition; the next fetch
\* is issued, or the loop is left with lastError as it is (gemini.ts:227-234).
DelayElapses ==
    /\ hpc = "retryWait"
    /\ attempt' = attempt + 1
    /\ IF LoopContinues(attempt + 1, opts.retries)
         THEN /\ hpc' = "fetching"
              /\ attempts' = attempts + 1
              /\ elapsed' = 0
              /\ UNCHANGED result
         ELSE /\ hpc' = "failed"
              /\ result' = Thrown(IF lastError # NoError THEN FinalError(lastError)
                                                       ELSE NetworkError("Request failed"))
              /\ UNCHANGED <<attempts, elapsed>>
    /\ UNCHANGED <<opts, delays, lastError, trace>>
    /\ UNCHANGED nonHttpVars

\* The caller has its answer; the client is ready for the next call.
CallReturns ==
    /\ hpc \in {"success", "failed"}
    /\ hpc' = "idle"
    /\ opts' = [url |-> "", retries |-> 0, retryDelay |-> 0, timeout |-> 0]
    /\ attempt' = 0
    /\ attempts' = 0
    /\ delays' = <<>>
    /\ elapsed' = 0
    /\ lastError' = NoError
    /\ result' = NoResult
    /\ trace' = <<>>
    /\ UNCHANGED nonHttpVars

HttpInit ==
    /\ hpc = "idle"
    /\ opts = [url |-> "", retries |-> 0, retryDelay |-> 0, timeout |-> 0]
    /\ attempt = 0
    /\ attempts = 0
    /\ delays = <<>>
    /\ elapsed = 0
    /\ lastError = NoError
    /\ result = NoResult
    /\ trace = <<>>

HttpNext ==
    \/ \E url \in Urls, retries \in RetriesRange, retryDelay \in RetryDelays,
          timeout \in Timeouts : ApiRequest(url, retries, retryDelay, timeout)
    \/ Elapse
    \/ \E status \in Statuses : FetchResponds(status)
    \/ FetchFails
    \/ TimerFires
    \/ JsonParsed
    \/ \E e \in {SyntaxError, TypeError} : JsonFails(e)
    \/ DelayElapses
    \/ CallReturns

(***************************************************************************)
(* The caches.  Tables are functions from the keys present to the entries. *)
(***************************************************************************)
WORD_CACHE_TTL == 24 * 60 * 60 * 1000

COLLOCATION_CACHE_TTL == 7 * 24 * 60 * 60 * 1000

Words == {"run"}
Readers == {1, 2}
CollocationLists == {"c1"}

\* The clock is advanced by 1 ms, or to 1 ms short of a TTL.
TickSteps == {1, WORD_CACHE_TTL - 1, COLLOCATION_CACHE_TTL - 1}

Undefined == [undefined |-> TRUE]

\* Faulty variant: the entry is stored without a lifetime.
WordCacheEntryZeroTtl(word, exists, timestamp, ttl) ==
    [word |-> word, exists |-> exists, timestamp |-> timestamp, ttl |-> 0]

WordCacheEntry(word, exists, timestamp, ttl) ==
    [word |-> word, exists |-> exists, timestamp |-> timestamp, ttl |-> ttl]

CollocationCacheEntry(word, collocations, timestamp) ==
    [word |-> word, collocations |-> collocations, timestamp |-> timestamp]

\* Table.get(key), Table.put(entry), Table.delete(key), Table.bulkDelete(keys)
TableGet(t, key) == IF key \in DOMAIN t THEN t[key] ELSE Undefined

\* Faulty variant: Table.add semantics that keep the entry already stored.
TablePutKeepsFirst(t, entry) ==
    [k \in DOMAIN t \cup {entry.word} |-> IF k \in DOMAIN t THEN t[k] ELSE entry]

TablePut(t, entry) ==
    [k \in DOMAIN t \cup {entry.word} |-> IF k = entry.word THEN entry ELSE t[k]]

TableBulkDelete(t, keys) == [k \in DOMAIN t \ keys |-> t[k]]

TableDelete(t, key) == TableBulkDelete(t, {key})

EmptyTable == [k \in {} |-> Undefined]

\* Faulty variant: an entry is still valid at timestamp + ttl.
WordCacheValidInclusive(n, cached) == n <= cached.timestamp + cached.ttl

\* part_001:27
WordCacheValid(n, cached) == n < cached.timestamp + cached.ttl

\* part_001:65
CollocationCacheValid(n, cached) == n < cached.timestamp + COLLOCATION_CACHE_TTL

\* part_001:187
WordExpiredForSweep(n, entry) == n > entry.timestamp + entry.ttl

\* part_001:195-197
CollocationOldForSweep(n, entry) ==
    LET sevenDaysAgo == n - 7 * 24 * 60 * 60 * 1000 IN entry.timestamp < sevenDaysAgo

\* A call that is not running.  fn: which function was called; entry: the entry
\* it passes to put; value: what it returned (Undefined: nothing yet; Threw: the
\* rejection of the compute function); hit: it returned the cached value.
Value(v) == [v |-> v]

Threw == [threw |-> TRUE]

IdleReader ==
    [pc |-> "idle", fn |-> "none", word |-> "", entry |-> Undefined, value |-> Undefined,
     hit |-> FALSE]

\* Calls are anonymous: a call takes the first free slot of rd.
FirstFree(r) == \A q \in Readers : rd[q].pc = "idle" => r <= q

IdleSweep == [pc |-> "idle", now |-> 0, expiredWords |-> {}, oldCollocations |-> {}]

\* Date.now() advances.
Tick(d) ==
    /\ ticks < MaxTicks
    /\ now + d <= HorizonDays * 24 * 60 * 60 * 1000
    /\ ticks' = ticks + 1
    /\ now' = now + d
    /\ UNCHANGED <<calls, wordCache, collocationCache, rd, sw>>
    /\ UNCHANGED nonCacheVars

(***************************************************************************)
(* checkWordWithCache (part_001:18-48)                                     *)
(***************************************************************************)
\* The call: db.wordCache.get(word) is issued.
CheckWordWithCache(r, word) ==
    /\ rd[r].pc = "idle"
    /\ FirstFree(r)
    /\ calls < MaxCalls
    /\ calls' = calls + 1
    /\ rd' = [rd EXCEPT ![r] = [IdleReader EXCEPT !.pc = "get", !.fn = "word",
                                                  !.word = word]]
    /\ UNCHANGED <<now, ticks, wordCache, collocationCache, sw>>
    /\ UNCHANGED nonCacheVars

\* get answers; part_001:25-37 up to the next await: a hit returns, an expired
\* entry has its delete issued, a miss calls checkFn.
WordGet(r) ==
    /\ rd[r].pc = "get" /\ rd[r].fn = "word"
    /\ LET cached == TableGet(wordCache, rd[r].word) IN
         rd' = [rd EXCEPT ![r] =
                  IF cached # Undefined
                    THEN IF WordCacheValid(now, cached)
                           THEN [@ EXCEPT !.pc = "done", !.value = Value(cached.exists),
                                          !.hit = TRUE]
                           ELSE [@ EXCEPT !.pc = "delete"]
                    ELSE [@ EXCEPT !.pc = "compute"]]
    /\ UNCHANGED <<now, ticks, calls, wordCache, collocationCache, sw>>
    /\ UNCHANGED nonCacheVars

\* delete is carried out; checkFn is called.
WordDelete(r) ==
    /\ rd[r].pc = "delete" /\ rd[r].fn = "word"
    /\ wordCache' = TableDelete(wordCache, rd[r].word)
    /\ rd' = [rd EXCEPT ![r].pc = "compute"]
    /\ UNCHANGED <<now, ticks, calls, collocationCache, sw>>
    /\ UNCHANGED nonCacheVars

\* checkFn resolves with `exists`; put is issued with timestamp Date.now().
WordCompute(r, exists) ==
    /\ rd[r].pc = "compute" /\ rd[r].fn = "word"
    /\ rd' = [rd EXCEPT ![r].pc = "put",
                        ![r].entry = WordCacheEntry(rd[r].word, exists, now,
                                                    WORD_CACHE_TTL)]
    /\ UNCHANGED <<now, ticks, calls, wordCache, collocationCache, sw>>
    /\ UNCHANGED nonCacheVars

\* put is carried out; the call returns exists.
WordPut(r) ==
    /\ rd[r].pc = "put" /\ rd[r].fn = "word"
    /\ wordCache' = TablePut(wordCache, rd[r].entry)
    /\ rd' = [rd EXCEPT ![r].pc = "done", ![r].value = Value(rd[r].entry.exists)]
    /\ UNCHANGED <<now, ticks, calls, collocationCache, sw>>
    /\ UNCHANGED nonCacheVars

(***************************************************************************)
(* getCollocationsWithCache (part_001:56-85)                               *)
(***************************************************************************)
GetCollocationsWithCache(r, word) ==
    /\ rd[r].pc = "idle"
    /\ FirstFree(r)
    /\ calls < MaxCalls
    /\ calls' = calls + 1
    /\ rd' = [rd EXCEPT ![r] = [IdleReader EXCEPT !.pc = "get", !.fn = "collocation",
                                                  !.word = word]]
    /\ UNCHANGED <<now, ticks, wordCache, collocationCache, sw>>
    /\ UNCHANGED nonCacheVars

CollocationGet(r) ==
    /\ rd[r].pc = "get" /\ rd[r].fn = "collocation"
    /\ LET cached == TableGet(collocationCache, rd[r].word) IN
         rd' = [rd EXCEPT ![r] =
                  IF cached # Undefined
                    THEN IF CollocationCacheValid(now, cached)
                           THEN [@ EXCEPT !.pc = "done", !.value = Value(cached.collocations),
                                          !.hit = TRUE]
                           ELSE [@ EXCEPT !.pc = "delete"]
                    ELSE [@ EXCEPT !.pc = "compute"]]
    /\ UNCHANGED <<now, ticks, calls, wordCache, collocationCache, sw>>
    /\ UNCHANGED nonCacheVars

CollocationDelete(r) ==
    /\ rd[r].pc = "delete" /\ rd[r].fn = "collocation"
    /\ collocationCache' = TableDelete(collocationCache, rd[r].word)
    /\ rd' = [rd EXCEPT ![r].pc = "compute"]
    /\ UNCHANGED <<now, ticks, calls, wordCache, sw>>
    /\ UNCHANGED nonCacheVars

\* generateFn([word]) resolves; put is issued with timestamp Date.now().
CollocationCompute(r, collocations) ==
    /\ rd[r].pc = "compute" /\ rd[r].fn = "collocation"
    /\ rd' = [rd EXCEPT ![r].pc = "put",
                        ![r].entry = CollocationCacheEntry(rd[r].word, collocations, now)]
    /\ UNCHANGED <<now, ticks, calls, wordCache, collocationCache, sw>>
    /\ UNCHANGED nonCacheVars

CollocationPut(r) ==
    /\ rd[r].pc = "put" /\ rd[r].fn = "collocation"
    /\ collocationCache' = TablePut(collocationCache, rd[r].entry)
    /\ rd' = [rd EXCEPT ![r].pc = "done", ![r].value = Value(rd[r].entry.collocations)]
    /\ UNCHANGED <<now, ticks, calls, wordCache, sw>>
    /\ UNCHANGED nonCacheVars

\* checkFn / generateFn rejects: the rejection leaves the cached read as it is.
ComputeFails(r) ==
    /\ rd[r].pc = "compute"
    /\ rd' = [rd EXCEPT ![r].pc = "done", ![r].value = Threw]
    /\ UNCHANGED <<now, ticks, calls, wordCache, collocationCache, sw>>
    /\ UNCHANGED nonCacheVars

\* The caller has its answer.
ReadReturns(r) ==
    /\ rd[r].pc = "done"
    /\ rd' = [rd EXCEPT ![r] = IdleReader]
    /\ UNCHANGED <<now, ticks, calls, wordCache, collocationCache, sw>>
    /\ UNCHANGED nonCacheVars

(***************************************************************************)
(* clearExpiredCache (part_001:182-203)                                    *)
(***************************************************************************)
\* The call: now = Date.now(); the filter over wordCache is issued.
ClearExpiredCache ==
    /\ sw.pc = "idle"
    /\ calls < MaxCalls
    /\ calls' = calls + 1
    /\ sw' = [IdleSweep EXCEPT !.pc = "scanWords", !.now = now]
    /\ UNCHANGED <<now, ticks, wordCache, collocationCache, rd>>
    /\ UNCHANGED nonCacheVars

\* toArray() answers; bulkDelete is issued if anything expired, else the filter
\* over collocationCache.
SweepScanWords ==
    /\ sw.pc = "scanWords"
    /\ LET expired == {w \in DOMAIN wordCache : WordExpiredForSweep(sw.now, wordCache[w])} IN
         sw' = [sw EXCEPT !.expiredWords = expired,
                          !.pc = IF expired # {} THEN "deleteWords" ELSE "scanCollocations"]
    /\ UNCHANGED <<now, ticks, calls, wordCache, collocationCache, rd>>
    /\ UNCHANGED nonCacheVars

SweepDeleteWords ==
    /\ sw.pc = "deleteWords"
    /\ wordCache' = TableBulkDelete(wordCache, sw.expiredWords)
    /\ sw' = [sw EXCEPT !.pc = "scanCollocations"]
    /\ UNCHANGED <<now, ticks, calls, collocationCache, rd>>
    /\ UNCHANGED nonCacheVars

SweepScanCollocations ==
    /\ sw.pc = "scanCollocations"
    /\ LET old == {w \in DOMAIN collocationCache :
                      CollocationOldForSweep(sw.now, collocationCache[w])} IN
         sw' = [sw EXCEPT !.oldCollocations = old,
                          !.pc = IF old # {} THEN "deleteCollocations" ELSE "done"]
    /\ UNCHANGED <<now, ticks, calls, wordCache, collocationCache, rd>>
    /\ UNCHANGED nonCacheVars

SweepDeleteCollocations ==
    /\ sw.pc = "deleteCollocations"
    /\ collocationCache' = TableBulkDelete(collocationCache, sw.oldCollocations)
    /\ sw' = [sw EXCEPT !.pc = "done"]
    /\ UNCHANGED <<now, ticks, calls, wordCache, rd>>
    /\ UNCHANGED nonCacheVars

SweepReturns ==
    /\ sw.pc = "done"
    /\ sw' = IdleSweep
    /\ UNCHANGED <<now, ticks, calls, wordCache, collocationCache, rd>>
    /\ UNCHANGED nonCacheVars

CacheInit ==
    /\ now = 0
    /\ ticks = 0
    /\ calls = 0
    /\ wordCache = EmptyTable
    /\ collocationCache = EmptyTable
    /\ rd = [r \in Readers |-> IdleReader]
    /\ sw = IdleSweep

CacheNext ==
    \/ \E d \in TickSteps : Tick(d)
    \/ \E r \in Readers, word \in Words : CheckWordWithCache(r, word)
    \/ \E r \in Readers : WordGet(r)
    \/ \E r \in Readers : WordDelete(r)
    \/ \E r \in Readers, exists \in BOOLEAN : WordCompute(r, exists)
    \/ \E r \in Readers : WordPut(r)
    \/ \E r \in Readers, word \in Words : GetCollocationsWithCache(r, word)
    \/ \E r \in Readers : CollocationGet(r)
    \/ \E r \in Readers : CollocationDelete(r)
    \/ \E r \in Readers, c \in CollocationLists : CollocationCompute(r, c)
    \/ \E r \in Readers : CollocationPut(r)
    \/ \E r \in Readers : ComputeFails(r)
    \/ \E r \in Readers : ReadReturns(r)
    \/ ClearExpiredCache
    \/ SweepScanWords
    \/ SweepDeleteWords
    \/ SweepScanCollocations
    \/ SweepDeleteCollocations
    \/ SweepReturns

(***************************************************************************)
(* initDatabase (part_001:208-214)                                         *)
(***************************************************************************)
SWEEP_INTERVAL == 60 * 60 * 1000

\* initDatabase is not running and has set no interval.
ClosedDb == [pc |-> "closed", firings |-> 0]

\* db.open() answers and clearExpiredCache() is called and awaited.
InitDatabase ==
    /\ idb.pc = "closed"
    /\ sw.pc = "idle"
    /\ idb' = [idb EXCEPT !.pc = "sweeping"]
    /\ sw' = [IdleSweep EXCEPT !.pc = "scanWords", !.now = now]
    /\ UNCHANGED <<now, ticks, calls, wordCache, collocationCache, rd>>
    /\ UNCHANGED nonDbVars

\* The awaited sweep has settled: setInterval(clearExpiredCache, 60 * 60 * 1000).
InitSetsInterval ==
    /\ idb.pc = "sweeping"
    /\ sw.pc = "idle"
    /\ idb' = [idb EXCEPT !.pc = "ready"]
    /\ UNCHANGED cacheVars
    /\ UNCHANGED nonDbVars

\* Faulty variant: a timer that fires once (setTimeout).
IntervalFiresOnce ==
    /\ idb.pc = "ready"
    /\ sw.pc = "idle"
    /\ idb.firings < 1
    /\ now' = now + SWEEP_INTERVAL
    /\ idb' = [idb EXCEPT !.firings = @ + 1]
    /\ sw' = [IdleSweep EXCEPT !.pc = "scanWords", !.now = now']
    /\ UNCHANGED <<ticks, calls, wordCache, collocationCache, rd>>
    /\ UNCHANGED nonDbVars

\* The interval fires, one hour after it was set or last fired, and calls
\* clearExpiredCache.
IntervalFires ==
    /\ idb.pc = "ready"
    /\ sw.pc = "idle"
    /\ idb.firings < MaxFirings
    /\ now' = now + SWEEP_INTERVAL
    /\ idb' = [idb EXCEPT !.firings = @ + 1]
    /\ sw' = [IdleSweep EXCEPT !.pc = "scanWords", !.now = now']
    /\ UNCHANGED <<ticks, calls, wordCache, collocationCache, rd>>
    /\ UNCHANGED nonDbVars

TimerInit == idb = ClosedDb

\* The database as a start of the extension finds it: the entries that earlier
\* runs stored and that were not read since.  age is now - timestamp.
StartTime == COLLOCATION_CACHE_TTL + 2 * SWEEP_INTERVAL

StoredWordAges ==
    {0, WORD_CACHE_TTL - SWEEP_INTERVAL, WORD_CACHE_TTL, WORD_CACHE_TTL + 1}

StoredCollocationAges ==
    {0, COLLOCATION_CACHE_TTL - SWEEP_INTERVAL, COLLOCATION_CACHE_TTL,
     COLLOCATION_CACHE_TTL + 1}

StoredWordCaches ==
    {EmptyTable} \cup
    {TablePut(EmptyTable, WordCacheEntry(w, e, StartTime - a, WORD_CACHE_TTL)) :
        w \in Words, e \in BOOLEAN, a \in StoredWordAges}

StoredCollocationCaches ==
    {EmptyTable} \cup
    {TablePut(EmptyTable, CollocationCacheEntry(w, c, StartTime - a)) :
        w \in Words, c \in CollocationLists, a \in StoredCollocationAges}

(***************************************************************************)
(* Words as the user types or selects them: sequences of characters.       *)
(* validation.ts:7-40, 94-120                                              *)
(***************************************************************************)
Alphabet == <<"a", "b", "c", "d", "e", "f", "g", "h", "i", "j", "k", "l", "m",
              "n", "o", "p", "q", "r", "s", "t", "u", "v", "w", "x", "y", "z">>

Capitals == <<"A", "B", "C", "D", "E", "F", "G", "H", "I", "J", "K", "L", "M",
              "N", "O", "P", "Q", "R", "S", "T", "U", "V", "W", "X", "Y", "Z">>

LowerCase == {Alphabet[i] : i \in 1..26}

UpperCase == {Capitals[i] : i \in 1..26}

\* \s, as far as the inputs go
WhiteSpace == {" ", "\t"}

\* String.prototype.trim
RECURSIVE TrimStart(_)
TrimStart(w) ==
    IF w # <<>> /\ Head(w) \in WhiteSpace THEN TrimStart(Tail(w)) ELSE w

RECURSIVE TrimEnd(_)
TrimEnd(w) ==
    IF w # <<>> /\ w[Len(w)] \in WhiteSpace THEN TrimEnd(SubSeq(w, 1, Len(w) - 1)) ELSE w

Trim(w) == TrimEnd(TrimStart(w))

\* replace(/\s+/g, ' ')
RECURSIVE CollapseWhiteSpace(_)
CollapseWhiteSpace(w) ==
    IF w = <<>> THEN <<>>
    ELSE IF Head(w) \in WhiteSpace
           THEN <<" ">> \o CollapseWhiteSpace(TrimStart(w))
           ELSE <<Head(w)>> \o CollapseWhiteSpace(Tail(w))

\* validation.ts:38-40
SanitizeWord(w) == CollapseWhiteSpace(Trim(w))

\* ENGLISH_WORD_REGEX = /^[a-zA-Z\s-]+$/
MatchesEnglishWordRegex(w) ==
    /\ w # <<>>
    /\ \A i \in 1..Len(w) : w[i] \in LowerCase \cup UpperCase \cup WhiteSpace \cup {"-"}

\* validation.ts:17-31
IsValidEnglishWord(w) ==
    /\ w # <<>>
    /\ LET trimmed == Trim(w) IN
         /\ ~(Len(trimmed) = 0 \/ Len(trimmed) > 100)
         /\ MatchesEnglishWordRegex(trimmed)

\* validation.ts:94-120
ValidateWord(w) ==
    IF w = <<>> \/ Len(Trim(w)) = 0
      THEN [valid |-> FALSE, error |-> "validation.word.empty"]
    ELSE IF Len(Trim(w)) > 100
      THEN [valid |-> FALSE, error |-> "validation.word.tooLong"]
    ELSE IF ~MatchesEnglishWordRegex(Trim(w))
      THEN [valid |-> FALSE, error |-> "validation.word.invalidFormat"]
    ELSE [valid |-> TRUE, error |-> ""]

\* What is typed into the popup or selected on a page.
RawWords ==
    { <<"g", "o", " ", "o", "n">>,
      <<"G", "o", " ", "O", "n">>,
      <<" ", "g", "o", "\t", " ", "o", "n", " ">>,
      <<"g", "o", "2">>,
      <<" ">> }

(***************************************************************************)
(* The queue: handleAddWord (popup/index.ts:57-88), the context-menu       *)
(* handler (background/index.ts:21-59), the remove button                  *)
(* (popup/index.ts:113-117).                                               *)
(***************************************************************************)
Handlers == {1, 2}

\* Faulty variant: the item is stored as failed, with an error.
WordQueueItemFailed(word, addedAt, status) ==
    [word |-> word, addedAt |-> addedAt, status |-> "failed", error |-> "Failed to add word"]

WordQueueItem(word, addedAt, status) ==
    [word |-> word, addedAt |-> addedAt, status |-> status]

\* A handler that is not running.  via: popup or menu; shown: the toast or
\* notification it showed.
IdleHandler == [pc |-> "idle", via |-> "none", word |-> <<>>, shown |-> "none"]

FirstFreeHandler(h) == \A q \in Handlers : hd[q].pc = "idle" => h <= q

\* The click on Add: sanitize, validate, call checkWordExists.
HandleAddWord(h, raw) ==
    /\ hd[h].pc = "idle"
    /\ FirstFreeHandler(h)
    /\ adds < MaxAdds
    /\ adds' = adds + 1
    /\ LET word == SanitizeWord(raw) IN
         hd' = [hd EXCEPT ![h] =
                  IF ~ValidateWord(word).valid
                    THEN [IdleHandler EXCEPT !.pc = "done", !.via = "popup", !.word = word,
                                             !.shown = "error"]
                    ELSE [IdleHandler EXCEPT !.pc = "check", !.via = "popup",
                                             !.word = word]]
    /\ UNCHANGED <<queue, now>>
    /\ UNCHANGED nonQueueVars

\* The click on the context-menu entry.
ContextMenuClicked(h, raw) ==
    /\ hd[h].pc = "idle"
    /\ FirstFreeHandler(h)
    /\ adds < MaxAdds
    /\ adds' = adds + 1
    /\ LET word == SanitizeWord(raw) IN
         hd' = [hd EXCEPT ![h] =
                  IF ~IsValidEnglishWord(word)
                    THEN [IdleHandler EXCEPT !.pc = "done", !.via = "menu", !.word = word,
                                             !.shown = "error"]
                    ELSE [IdleHandler EXCEPT !.pc = "check", !.via = "menu",
                                             !.word = word]]
    /\ UNCHANGED <<queue, now>>
    /\ UNCHANGED nonQueueVars

\* checkWordExists answers: a word the server has gives a warning; otherwise the
\* popup issues the add, the context menu the get.
CheckWordExistsAnswers(h, exists) ==
    /\ hd[h].pc = "check"
    /\ hd' = [hd EXCEPT ![h] =
                IF exists THEN [@ EXCEPT !.pc = "done", !.shown = "warning"]
                ELSE IF hd[h].via = "popup" THEN [@ EXCEPT !.pc = "add"]
                ELSE [@ EXCEPT !.pc = "get"]]
    /\ UNCHANGED <<queue, adds, now>>
    /\ UNCHANGED nonQueueVars

\* checkWordExists rejects (no server URL, transport failure).
CheckWordExistsFails(h) ==
    /\ hd[h].pc = "check"
    /\ hd' = [hd EXCEPT ![h].pc = "done", ![h].shown = "error"]
    /\ UNCHANGED <<queue, adds, now>>
    /\ UNCHANGED nonQueueVars

\* db.queue.get(word) answers (context menu only).
QueueGet(h) ==
    /\ hd[h].pc = "get"
    /\ hd' = [hd EXCEPT ![h] =
                IF TableGet(queue, hd[h].word) # Undefined
                  THEN [@ EXCEPT !.pc = "done", !.shown = "warning"]
                  ELSE [@ EXCEPT !.pc = "add"]]
    /\ UNCHANGED <<queue, adds, now>>
    /\ UNCHANGED nonQueueVars

\* db.queue.add(item) is carried out: Table.add rejects with ConstraintError
\* when the primary key is already stored, and the handler's catch shows
\* 'Failed to add word'.
QueueAdd(h) ==
    /\ hd[h].pc = "add"
    /\ IF hd[h].word \in DOMAIN queue
         THEN /\ hd' = [hd EXCEPT ![h].pc = "done", ![h].shown = "error"]
              /\ UNCHANGED queue
         ELSE /\ queue' = TablePut(queue, WordQueueItem(hd[h].word, now, "pending"))
              /\ hd' = [hd EXCEPT ![h].pc = "count"]
    /\ UNCHANGED <<adds, now>>
    /\ UNCHANGED nonQueueVars

\* loadQueue / db.queue.count() answer; the success message is shown.
QueueCount(h) ==
    /\ hd[h].pc = "count"
    /\ hd' = [hd EXCEPT ![h].pc = "done", ![h].shown = "success"]
    /\ UNCHANGED <<queue, adds, now>>
    /\ UNCHANGED nonQueueVars

HandlerReturns(h) ==
    /\ hd[h].pc = "done"
    /\ hd' = [hd EXCEPT ![h] = IdleHandler]
    /\ UNCHANGED <<queue, adds, now>>
    /\ UNCHANGED nonQueueVars

\* The remove button of a queue item: db.queue.delete(word).
RemoveFromQueue(word) ==
    /\ word \in DOMAIN queue
    /\ queue' = TableDelete(queue, word)
    /\ UNCHANGED <<hd, adds, now>>
    /\ UNCHANGED nonQueueVars

\* The keys the inputs can give.
QueueKeys == {SanitizeWord(raw) : raw \in RawWords}

QueueInit ==
    /\ queue = EmptyTable
    /\ hd = [h \in Handlers |-> IdleHandler]
    /\ adds = 0

QueueNext ==
    \/ \E d \in TickSteps : Tick(d)
    \/ \E h \in Handlers, raw \in RawWords : HandleAddWord(h, raw)
    \/ \E h \in Handlers, raw \in RawWords : ContextMenuClicked(h, raw)
    \/ \E h \in Handlers, exists \in BOOLEAN : CheckWordExistsAnswers(h, exists)
    \/ \E h \in Handlers : CheckWordExistsFails(h)
    \/ \E h \in Handlers : QueueGet(h)
    \/ \E h \in Handlers : QueueAdd(h)
    \/ \E h \in Handlers : QueueCount(h)
    \/ \E h \in Handlers : HandlerReturns(h)
    \/ \E word \in QueueKeys : RemoveFromQueue(word)

(***************************************************************************)
(* Strings and bytes of the keychain (security/keychain.ts).  A string is   *)
(* the sequence of its UTF-16 code units, a byte array a sequence of        *)
(* numbers in 0..255.                                                       *)
(***************************************************************************)
IsHighSurrogate(c) == c >= 55296 /\ c <= 56319

IsLowSurrogate(c) == c >= 56320 /\ c <= 57343

IsContinuation(b) == b >= 128 /\ b <= 191

\* new TextEncoder().encode(s): UTF-8; a surrogate without its partner is
\* encoded as U+FFFD.
RECURSIVE Utf8Encode(_)
Utf8Encode(s) ==
    IF s = <<>> THEN <<>>
    ELSE LET c == Head(s) IN
      IF c < 128 THEN <<c>> \o Utf8Encode(Tail(s))
      ELSE IF c < 2048
        THEN <<192 + (c \div 64), 128 + (c % 64)>> \o Utf8Encode(Tail(s))
      ELSE IF IsHighSurrogate(c) /\ Len(s) >= 2 /\ IsLowSurrogate(s[2])
        THEN LET cp == 65536 + (c - 55296) * 1024 + (s[2] - 56320) IN
               <<240 + (cp \div 262144), 128 + ((cp \div 4096) % 64),
                 128 + ((cp \div 64) % 64), 128 + (cp % 64)>>
               \o Utf8Encode(Tail(Tail(s)))
      ELSE IF IsHighSurrogate(c) \/ IsLowSurrogate(c)
        THEN <<239, 191, 189>> \o Utf8Encode(Tail(s))
      ELSE <<224 + (c \div 4096), 128 + ((c \div 64) % 64), 128 + (c % 64)>>
             \o Utf8Encode(Tail(s))

\* The UTF-8 decoder of TextDecoder (not fatal): a byte that starts no
\* well-formed sequence is decoded as U+FFFD.
RECURSIVE Utf8DecodeBytes(_)
Utf8DecodeBytes(b) ==
    IF b = <<>> THEN <<>>
    ELSE LET b1 == b[1]
             n == Len(b) IN
      IF b1 < 128 THEN <<b1>> \o Utf8DecodeBytes(Tail(b))
      ELSE IF b1 >= 194 /\ b1 <= 223 /\ n >= 2 /\ IsContinuation(b[2])
        THEN <<(b1 - 192) * 64 + (b[2] - 128)>> \o Utf8DecodeBytes(SubSeq(b, 3, n))
      ELSE IF /\ b1 >= 224 /\ b1 <= 239 /\ n >= 3
              /\ IsContinuation(b[2]) /\ IsContinuation(b[3])
              /\ (b1 = 224 => b[2] >= 160)
              /\ (b1 = 237 => b[2] <= 159)
        THEN <<(b1 - 224) * 4096 + (b[2] - 128) * 64 + (b[3] - 128)>>
               \o Utf8DecodeBytes(SubSeq(b, 4, n))
      ELSE IF /\ b1 >= 240 /\ b1 <= 244 /\ n >= 4
              /\ IsContinuation(b[2]) /\ IsContinuation(b[3]) /\ IsContinuation(b[4])
              /\ (b1 = 240 => b[2] >= 144)
              /\ (b1 = 244 => b[2] <= 143)
        THEN LET cp == (b1 - 240) * 262144 + (b[2] - 128) * 4096
                       + (b[3] - 128) * 64 + (b[4] - 128) IN
               <<55296 + ((cp - 65536) \div 1024), 56320 + ((cp - 65536) % 1024)>>
               \o Utf8DecodeBytes(SubSeq(b, 5, n))
      ELSE <<65533>> \o Utf8DecodeBytes(Tail(b))

\* new TextDecoder().decode(bytes): ignoreBOM is false, so a byte order mark at
\* the start is dropped.
Utf8Decode(b) ==
    LET s == Utf8DecodeBytes(b) IN
      IF s # <<>> /\ Head(s) = 65279 THEN Tail(s) ELSE s

\* The base64 alphabet A-Z a-z 0-9 + /, as code units; = is 61.
Base64Alphabet ==
    <<65, 66, 67, 68, 69, 70, 71, 72, 73, 74, 75, 76, 77, 78, 79, 80,
      81, 82, 83, 84, 85, 86, 87, 88, 89, 90, 97, 98, 99, 100, 101, 102,
      103, 104, 105, 106, 107, 108, 109, 110, 111, 112, 113, 114, 115, 116, 117, 118,
      119, 120, 121, 122, 48, 49, 50, 51, 52, 53, 54, 55, 56, 57, 43, 47>>

Base64Char(i) == Base64Alphabet[i + 1]

Base64Index(c) == CHOOSE i \in 0..63 : Base64Alphabet[i + 1] = c

\* btoa(String.fromCharCode(...bytes))
RECURSIVE Btoa(_)
Btoa(b) ==
    IF b = <<>> THEN <<>>
    ELSE IF Len(b) = 1
      THEN <<Base64Char(b[1] \div 4), Base64Char((b[1] % 4) * 16), 61, 61>>
    ELSE IF Len(b) = 2
      THEN <<Base64Char(b[1] \div 4), Base64Char((b[1] % 4) * 16 + (b[2] \div 16)),
             Base64Char((b[2] % 16) * 4), 61>>
    ELSE <<Base64Char(b[1] \div 4), Base64Char((b[1] % 4) * 16 + (b[2] \div 16)),
           Base64Char((b[2] % 16) * 4 + (b[3] \div 64)), Base64Char(b[3] % 64)>>
         \o Btoa(SubSeq(b, 4, Len(b)))

\* The sextets of a base64 text without padding, turned into bytes; the bits
\* left over after the last whole byte are dropped.
RECURSIVE SextetsToBytes(_)
SextetsToBytes(x) ==
    IF Len(x) < 2 THEN <<>>
    ELSE IF Len(x) = 2 THEN <<x[1] * 4 + (x[2] \div 16)>>
    ELSE IF Len(x) = 3
      THEN <<x[1] * 4 + (x[2] \div 16), (x[2] % 16) * 16 + (x[3] \div 4)>>
    ELSE <<x[1] * 4 + (x[2] \div 16), (x[2] % 16) * 16 + (x[3] \div 4),
           (x[3] % 4) * 64 + x[4]>>
         \o SextetsToBytes(SubSeq(x, 5, Len(x)))

\* atob(text), then charCodeAt of every character: ASCII whitespace is
\* removed, one or two = are removed from a text whose length is a multiple of
\* 4; a length of 1 modulo 4 or a character outside the alphabet is an
\* InvalidCharacterError.
Atob(text) ==
    LET stripped == SelectSeq(text, LAMBDA c : c \notin {9, 10, 12, 13, 32})
        n == Len(stripped)
        data == IF n > 0 /\ n % 4 = 0 /\ stripped[n] = 61
                  THEN IF stripped[n - 1] = 61 THEN SubSeq(stripped, 1, n - 2)
                                               ELSE SubSeq(stripped, 1, n - 1)
                  ELSE stripped
        alphabet == {Base64Alphabet[i] : i \in 1..64}
    IN IF Len(data) % 4 = 1 \/ \E i \in 1..Len(data) : data[i] \notin alphabet
         THEN [ok |-> FALSE, bytes |-> <<>>]
         ELSE [ok |-> TRUE,
               bytes |-> SextetsToBytes([i \in 1..Len(data) |-> Base64Index(data[i])])]

(***************************************************************************)
(* AES-GCM under the key of the installation (keychain.ts:113-151): a       *)
(* stand-in authenticated cipher.  The ciphertext is the plaintext added    *)
(* byte by byte to a key stream that depends on the IV; it is followed by   *)
(* a tag of TagLength bytes computed from the IV and the ciphertext, which  *)
(* no change of a single byte of either leaves the same.  Decryption        *)
(* recomputes the tag and rejects (OperationError) when it differs.         *)
(***************************************************************************)
IV_LENGTH == 12

TagLength == 128 \div 8

KeyStream(iv, i) == (iv[((i - 1) % Len(iv)) + 1] + 31 * i) % 256

RECURSIVE WeightedSum(_, _)
WeightedSum(b, i) == IF i = 0 THEN 0 ELSE i * b[i] + WeightedSum(b, i - 1)

Tag(iv, ct) ==
    LET t == (WeightedSum(iv \o ct, Len(iv) + Len(ct)) + Len(ct)) % 257 IN
      [k \in 1..TagLength |->
          IF k = 1 THEN t % 256 ELSE IF k = 2 THEN t \div 256 ELSE (t + k) % 256]

\* crypto.subtle.encrypt({name: 'AES-GCM', iv}, key, data)
SubtleEncrypt(iv, data) ==
    LET ct == [i \in 1..Len(data) |-> (data[i] + KeyStream(iv, i)) % 256] IN
      ct \o Tag(iv, ct)

\* Faulty variant: a cipher mode without authentication.
SubtleDecryptUnauthenticated(iv, data) ==
    IF Len(data) < TagLength \/ iv = <<>> THEN [ok |-> FALSE, bytes |-> <<>>]
    ELSE LET ct == SubSeq(data, 1, Len(data) - TagLength) IN
           [ok |-> TRUE,
            bytes |-> [i \in 1..Len(ct) |-> (ct[i] + 256 - KeyStream(iv, i)) % 256]]

\* crypto.subtle.decrypt({name: 'AES-GCM', iv}, key, data)
SubtleDecrypt(iv, data) ==
    IF Len(data) < TagLength \/ iv = <<>> THEN [ok |-> FALSE, bytes |-> <<>>]
    ELSE LET ct == SubSeq(data, 1, Len(data) - TagLength)
             tag == SubSeq(data, Len(data) - TagLength + 1, Len(data)) IN
           IF tag # Tag(iv, ct) THEN [ok |-> FALSE, bytes |-> <<>>]
           ELSE [ok |-> TRUE,
                 bytes |-> [i \in 1..Len(ct) |-> (ct[i] + 256 - KeyStream(iv, i)) % 256]]

\* Faulty variant: the value is stored as it is.
EncryptNothing(plaintext, iv) == plaintext

\* keychain.ts:158-184, with the IV that crypto.getRandomValues gave
Encrypt(plaintext, iv) == Btoa(iv \o SubtleEncrypt(iv, Utf8Encode(plaintext)))

DecryptFailed ==
    [ok |-> FALSE, value |-> <<>>, error |-> MkError("Error", "Failed to decrypt data", 0, "")]

\* keychain.ts:191-216: any failure inside is rethrown as
\* Error('Failed to decrypt data').
Decrypt(encrypted) ==
    LET combined == Atob(encrypted) IN
      IF ~combined.ok THEN DecryptFailed
      ELSE LET n == Len(combined.bytes)
               iv == SubSeq(combined.bytes, 1, IF n < IV_LENGTH THEN n ELSE IV_LENGTH)
               data == SubSeq(combined.bytes, IV_LENGTH + 1, n)
               decrypted == SubtleDecrypt(iv, data) IN
             IF ~decrypted.ok THEN DecryptFailed
             ELSE [ok |-> TRUE, value |-> Utf8Decode(decrypted.bytes), error |-> NoError]

\* keychain.ts:223-227: base64Regex = /^[A-Za-z0-9+/]+=*$/
IsEncrypted(value) ==
    /\ Len(value) > 20
    /\ \E k \in 1..Len(value) :
          /\ \A i \in 1..k : value[i] \in {Base64Alphabet[j] : j \in 1..64}
          /\ \A i \in (k + 1)..Len(value) : value[i] = 61

(***************************************************************************)
(* The keychain: storeApiKey, retrieveApiKey, removeApiKey, migrateApiKey  *)
(* (keychain.ts:15-106).                                                   *)
(***************************************************************************)
\* "AIzaSyD-9tSrke72PouQMnMX-a7eZS"
KeyPlain ==
    <<65, 73, 122, 97, 83, 121, 68, 45, 57, 116, 83, 114, 107, 101,
      55, 50, 80, 111, 117, 81, 77, 110, 77, 88, 45, 97, 55, 101,
      90, 83>>

\* "AIza-legacy_key-000001"
KeyDash ==
    <<65, 73, 122, 97, 45, 108, 101, 103, 97, 99, 121, 95, 107, 101,
      121, 45, 48, 48, 48, 48, 48, 49>>

\* "AIzaSyA1234567890abcdefg": letters and digits only
KeyAlnum ==
    <<65, 73, 122, 97, 83, 121, 65, 49, 50, 51, 52, 53, 54, 55,
      56, 57, 48, 97, 98, 99, 100, 101, 102, 103>>

\* "\uFEFFAIza": a byte order mark in front
KeyBom ==
    <<65279, 65, 73, 122, 97>>

\* "AIza\uD800": a high surrogate without its partner
KeySurrogate ==
    <<65, 73, 122, 97, 55296>>

\* "AIza\uD83D\uDE00": a surrogate pair
KeyEmoji ==
    <<65, 73, 122, 97, 55357, 56832>>

\* What the options page hands to storeApiKey.
ApiKeys == {KeyPlain, KeyBom, KeySurrogate, KeyEmoji}

\* What an earlier version left in chrome.storage.sync.
LegacyKeys == {KeyDash, KeyAlnum}

\* What crypto.getRandomValues(new Uint8Array(IV_LENGTH)) gives.
IVs == {[i \in 1..IV_LENGTH |-> (17 * i) % 256], [i \in 1..IV_LENGTH |-> 255 - i]}

\* A key of a storage area: absent, or holding a string.
Absent == [present |-> FALSE, value |-> <<>>]

Stored(value) == [present |-> TRUE, value |-> value]

\* What a call returned: nothing yet, undefined, null, a string, a boolean, or
\* a rejection.
Pending == [pending |-> TRUE]

JsNull == [null |-> TRUE]

JsString(str) == [string |-> str]

JsBoolean(b) == [boolean |-> b]

Rejected(e) == [rejected |-> e]

\* decrypt was not called.
NotDecrypted == [ok |-> FALSE, value |-> <<>>, error |-> NoError]

NoOp == [fn |-> "none", failed |-> FALSE]

\* No call in progress.  arg: the plaintext to store; payload: what encrypt
\* returned; syncData: what chrome.storage.sync.get returned; dec: what decrypt
\* did; failed: a storage or crypto step of the call rejected; after: the call
\* that had returned last when this one started.
IdleKeychain ==
    [pc |-> "idle", fn |-> "none", arg |-> <<>>, payload |-> <<>>, syncData |-> Absent,
     ret |-> Pending, dec |-> NotDecrypted, failed |-> FALSE, after |-> NoOp]

\* storeApiKey(apiKey) = secureStore('aiApiKey', apiKey): encrypt is called.
StoreApiKey(apiKey) ==
    /\ kc.pc = "idle"
    /\ keyOps < MaxKeyOps
    /\ keyOps' = keyOps + 1
    /\ kc' = [IdleKeychain EXCEPT !.pc = "encrypt", !.fn = "store", !.arg = apiKey,
                                  !.after = lastOp]
    /\ UNCHANGED <<local, sync, lastOp, tampered>>
    /\ UNCHANGED nonKeyVars

\* retrieveApiKey() = secureRetrieve('aiApiKey'): chrome.storage.local.get.
RetrieveApiKey ==
    /\ kc.pc = "idle"
    /\ keyOps < MaxKeyOps
    /\ keyOps' = keyOps + 1
    /\ kc' = [IdleKeychain EXCEPT !.pc = "localGet", !.fn = "retrieve", !.after = lastOp]
    /\ UNCHANGED <<local, sync, lastOp, tampered>>
    /\ UNCHANGED nonKeyVars

\* removeApiKey() = secureRemove('aiApiKey'): chrome.storage.local.remove.
RemoveApiKey ==
    /\ kc.pc = "idle"
    /\ keyOps < MaxKeyOps
    /\ keyOps' = keyOps + 1
    /\ kc' = [IdleKeychain EXCEPT !.pc = "localRemove", !.fn = "remove", !.after = lastOp]
    /\ UNCHANGED <<local, sync, lastOp, tampered>>
    /\ UNCHANGED nonKeyVars

\* migrateApiKey(): chrome.storage.sync.get('aiApiKey').
MigrateApiKey ==
    /\ kc.pc = "idle"
    /\ keyOps < MaxKeyOps
    /\ keyOps' = keyOps + 1
    /\ kc' = [IdleKeychain EXCEPT !.pc = "syncGet", !.fn = "migrate", !.after = lastOp]
    /\ UNCHANGED <<local, sync, lastOp, tampered>>
    /\ UNCHANGED nonKeyVars

\* keychain.ts:64-84: the legacy value is migrated when it is there (and not
\* empty) and isEncrypted says no; otherwise the call returns false.
SyncGetAnswers ==
    /\ kc.pc = "syncGet"
    /\ kc' = IF sync.present /\ sync.value # <<>> /\ ~IsEncrypted(sync.value)
               THEN [kc EXCEPT !.pc = "encrypt", !.syncData = sync, !.arg = sync.value]
               ELSE [kc EXCEPT !.pc = "done", !.syncData = sync, !.ret = JsBoolean(FALSE)]
    /\ UNCHANGED <<local, sync, keyOps, lastOp, tampered>>
    /\ UNCHANGED nonKeyVars

\* encrypt(value) resolves; chrome.storage.local.set is issued.
EncryptAnswers(iv) ==
    /\ kc.pc = "encrypt"
    /\ kc' = [kc EXCEPT !.pc = "localSet", !.payload = Encrypt(kc.arg, iv)]
    /\ UNCHANGED <<local, sync, keyOps, lastOp, tampered>>
    /\ UNCHANGED nonKeyVars

\* chrome.storage.local.set({secure_aiApiKey: encrypted}) is carried out.
\* storeApiKey returns; migrateApiKey goes on to chrome.storage.sync.remove.
LocalSetAnswers ==
    /\ kc.pc = "localSet"
    /\ local' = Stored(kc.payload)
    /\ tampered' = FALSE
    /\ kc' = IF kc.fn = "store" THEN [kc EXCEPT !.pc = "done", !.ret = Undefined]
                                ELSE [kc EXCEPT !.pc = "syncRemove"]
    /\ UNCHANGED <<sync, keyOps, lastOp>>
    /\ UNCHANGED nonKeyVars

\* Faulty variant: the legacy key is left in place.
SyncRemoveKeepsLegacy ==
    /\ kc.pc = "syncRemove"
    /\ kc' = [kc EXCEPT !.pc = "done", !.ret = JsBoolean(TRUE)]
    /\ UNCHANGED <<local, sync, keyOps, lastOp, tampered>>
    /\ UNCHANGED nonKeyVars

\* chrome.storage.sync.remove('aiApiKey') is carried out; migrateApiKey
\* returns true.
SyncRemoveAnswers ==
    /\ kc.pc = "syncRemove"
    /\ sync' = Absent
    /\ kc' = [kc EXCEPT !.pc = "done", !.ret = JsBoolean(TRUE)]
    /\ UNCHANGED <<local, keyOps, lastOp, tampered>>
    /\ UNCHANGED nonKeyVars

\* Faulty variant: secureRetrieve has no catch and lets decrypt's error through.
LocalGetAnswersThrows ==
    /\ kc.pc = "localGet"
    /\ kc' = IF ~local.present \/ local.value = <<>>
               THEN [kc EXCEPT !.pc = "done", !.ret = JsNull]
               ELSE LET d == Decrypt(local.value) IN
                      [kc EXCEPT !.pc = "done", !.dec = d,
                                 !.ret = IF d.ok THEN JsString(d.value) ELSE Rejected(d.error)]
    /\ UNCHANGED <<local, sync, keyOps, lastOp, tampered>>
    /\ UNCHANGED nonKeyVars

\* chrome.storage.local.get answers (keychain.ts:35-46): nothing stored gives
\* null; otherwise decrypt is called, and its failure gives null too.
LocalGetAnswers ==
    /\ kc.pc = "localGet"
    /\ kc' = IF ~local.present \/ local.value = <<>>
               THEN [kc EXCEPT !.pc = "done", !.ret = JsNull]
               ELSE LET d == Decrypt(local.value) IN
                      [kc EXCEPT !.pc = "done", !.dec = d,
                                 !.ret = IF d.ok THEN JsString(d.value) ELSE JsNull]
    /\ UNCHANGED <<local, sync, keyOps, lastOp, tampered>>
    /\ UNCHANGED nonKeyVars

\* chrome.storage.local.remove('secure_aiApiKey') is carried out.
LocalRemoveAnswers ==
    /\ kc.pc = "localRemove"
    /\ local' = Absent
    /\ tampered' = FALSE
    /\ kc' = [kc EXCEPT !.pc = "done", !.ret = Undefined]
    /\ UNCHANGED <<sync, keyOps, lastOp>>
    /\ UNCHANGED nonKeyVars

\* Faulty variant: migrateApiKey has no catch and lets the rejection through.
StepFailsMigrateThrows ==
    /\ kc.pc \in {"syncGet", "encrypt", "localSet", "syncRemove", "localGet", "localRemove"}
    /\ kc' = [kc EXCEPT
                !.pc = "done",
                !.failed = TRUE,
                !.ret = IF kc.fn = "store" \/ (kc.fn = "migrate" /\ kc.pc \in {"encrypt", "localSet"})
                          THEN Rejected(MkError("Error", "Failed to store aiApiKey securely",
                                                0, ""))
                        ELSE IF kc.fn = "retrieve" THEN JsNull
                        ELSE Rejected(MkError("Error", "chrome.storage", 0, ""))]
    /\ UNCHANGED <<local, sync, keyOps, lastOp, tampered>>
    /\ UNCHANGED nonKeyVars

\* The storage or crypto step the call waits for rejects.  secureStore
\* rethrows as Error('Failed to store aiApiKey securely'), migrateApiKey
\* catches and returns false, secureRetrieve catches and returns null,
\* secureRemove lets the rejection through.
StepFails ==
    /\ kc.pc \in {"syncGet", "encrypt", "localSet", "syncRemove", "localGet", "localRemove"}
    /\ kc' = [kc EXCEPT
                !.pc = "done",
                !.failed = TRUE,
                !.ret = IF kc.fn = "store"
                          THEN Rejected(MkError("Error", "Failed to store aiApiKey securely",
                                                0, ""))
                        ELSE IF kc.fn = "migrate" THEN JsBoolean(FALSE)
                        ELSE IF kc.fn = "retrieve" THEN JsNull
                        ELSE Rejected(MkError("Error", "chrome.storage", 0, ""))]
    /\ UNCHANGED <<local, sync, keyOps, lastOp, tampered>>
    /\ UNCHANGED nonKeyVars

\* The caller has its answer.
KeychainReturns ==
    /\ kc.pc = "done"
    /\ lastOp' = [fn |-> kc.fn, failed |-> kc.failed]
    /\ kc' = IdleKeychain
    /\ UNCHANGED <<local, sync, keyOps, tampered>>
    /\ UNCHANGED nonKeyVars

\* A fresh installation: both storage areas are empty.
FreshInstall ==
    /\ local = Absent
    /\ sync = Absent
    /\ kc = IdleKeychain
    /\ keyOps = 0
    /\ lastOp = NoOp
    /\ tampered = FALSE

\* A fresh installation, or an update of a version that kept the key in
\* chrome.storage.sync.
KeyInit ==
    /\ local = Absent
    /\ sync \in {Absent} \cup {Stored(k) : k \in LegacyKeys}
    /\ kc = IdleKeychain
    /\ keyOps = 0
    /\ lastOp = NoOp
    /\ tampered = FALSE

KeyNext ==
    \/ \E apiKey \in ApiKeys : StoreApiKey(apiKey)
    \/ RetrieveApiKey
    \/ RemoveApiKey
    \/ MigrateApiKey
    \/ SyncGetAnswers
    \/ \E iv \in IVs : EncryptAnswers(iv)
    \/ LocalSetAnswers
    \/ SyncRemoveAnswers
    \/ LocalGetAnswers
    \/ LocalRemoveAnswers
    \/ StepFails
    \/ KeychainReturns

\* Something other than the keychain alters one byte of the stored payload:
\* a character of the base64 text, or a byte of the IV, ciphertext and tag that
\* the text encodes.  The byte is flipped: every bit of it is inverted.  It
\* happens between two calls of the keychain.
FlipByte(b, i) == [b EXCEPT ![i] = 255 - @]

MaxPayloadLength ==
    LET longest == CHOOSE n \in {Len(Utf8Encode(p)) : p \in ApiKeys \cup LegacyKeys} :
                      \A p \in ApiKeys \cup LegacyKeys : Len(Utf8Encode(p)) <= n
    IN 4 * ((IV_LENGTH + longest + TagLength + 2) \div 3)

TamperText(i) ==
    /\ local.present
    /\ ~tampered
    /\ kc.pc = "idle"
    /\ keyOps < MaxKeyOps
    /\ i <= Len(local.value)
    /\ local' = Stored(FlipByte(local.value, i))
    /\ tampered' = TRUE
    /\ UNCHANGED <<sync, kc, keyOps, lastOp>>
    /\ UNCHANGED nonKeyVars

TamperBytes(i) ==
    /\ local.present
    /\ ~tampered
    /\ kc.pc = "idle"
    /\ keyOps < MaxKeyOps
    /\ i <= Len(Atob(local.value).bytes)
    /\ local' = Stored(Btoa(FlipByte(Atob(local.value).bytes, i)))
    /\ tampered' = TRUE
    /\ UNCHANGED <<sync, kc, keyOps, lastOp>>
    /\ UNCHANGED nonKeyVars

TamperNext ==
    \/ KeyNext
    \/ \E i \in 1..MaxPayloadLength : TamperText(i)
    \/ \E i \in 1..MaxPayloadLength : TamperBytes(i)

(***************************************************************************)
(* The options page: handleSave (options/index.ts:34-59) and the          *)
(* validators it calls (validation.ts:126-182).                            *)
(***************************************************************************)
\* "http://localhost:3000"
UrlLocal ==
    <<"h", "t", "t", "p", ":", "/", "/", "l", "o", "c", "a", "l", "h", "o", "s", "t",
      ":", "3", "0", "0", "0">>

\* " https://v.io ": blanks around a valid URL
UrlPadded ==
    <<" ", "h", "t", "t", "p", "s", ":", "/", "/", "v", ".", "i", "o", " ">>

\* "ftp://v.io"
UrlFtp == <<"f", "t", "p", ":", "/", "/", "v", ".", "i", "o">>

\* "http://a b": passes URL_REGEX, new URL() throws
UrlBadHost == <<"h", "t", "t", "p", ":", "/", "/", "a", " ", "b">>

\* What is typed into the server URL field.
UrlInputs == {UrlLocal, UrlPadded, UrlFtp, UrlBadHost, <<>>, <<" ">>}

StartsWith(s, prefix) ==
    Len(s) >= Len(prefix) /\ SubSeq(s, 1, Len(prefix)) = prefix

\* URL_REGEX = /^https?:\/\/.+/
MatchesUrlRegex(url) ==
    \E scheme \in {<<"h", "t", "t", "p", ":", "/", "/">>,
                   <<"h", "t", "t", "p", "s", ":", "/", "/">>} :
        /\ StartsWith(url, scheme)
        /\ Len(url) > Len(scheme)
        /\ url[Len(scheme) + 1] \notin {"\n", "\r"}

\* The host of an http(s) URL: what follows the slashes, up to the port or the
\* path.
RECURSIVE UpTo(_, _)
UpTo(s, stops) ==
    IF s = <<>> \/ Head(s) \in stops THEN <<>> ELSE <<Head(s)>> \o UpTo(Tail(s), stops)

RECURSIVE SkipSlashes(_)
SkipSlashes(s) ==
    IF s # <<>> /\ Head(s) \in {"/", "\\"} THEN SkipSlashes(Tail(s)) ELSE s

HostOf(url) ==
    LET afterScheme == SubSeq(url, Len(UpTo(url, {":"})) + 2, Len(url))
    IN UpTo(SkipSlashes(afterScheme), {":", "/", "\\", "?", "#"})

ForbiddenHostCodePoints == {" ", "<", ">", "^", "|", "%", "[", "]", "@"}

\* new URL(trimmed) does not throw: of URL parsing, the part the inputs reach (a
\* host that is not empty and holds no forbidden code point).
NewUrlParses(url) ==
    LET host == HostOf(url) IN
      /\ host # <<>>
      /\ \A i \in 1..Len(host) : host[i] \notin ForbiddenHostCodePoints

\* validation.ts:126-152
ValidateServerUrl(url) ==
    IF url = <<>> \/ Len(Trim(url)) = 0
      THEN [valid |-> FALSE, error |-> "validation.serverUrl.empty"]
    ELSE IF ~MatchesUrlRegex(Trim(url))
      THEN [valid |-> FALSE, error |-> "validation.serverUrl.invalidProtocol"]
    ELSE IF ~NewUrlParses(Trim(url))
      THEN [valid |-> FALSE, error |-> "validation.serverUrl.invalidFormat"]
    ELSE [valid |-> TRUE, error |-> ""]

\* String.prototype.trim on UTF-16 code units: white space and line terminators.
JsWhiteSpaceUnits ==
    {9, 10, 11, 12, 13, 32, 160, 5760, 8232, 8233, 8239, 8287, 12288, 65279}
        \cup (8192..8202)

RECURSIVE TrimUnitsStart(_)
TrimUnitsStart(s) ==
    IF s # <<>> /\ Head(s) \in JsWhiteSpaceUnits THEN TrimUnitsStart(Tail(s)) ELSE s

RECURSIVE TrimUnitsEnd(_)
TrimUnitsEnd(s) ==
    IF s # <<>> /\ s[Len(s)] \in JsWhiteSpaceUnits
      THEN TrimUnitsEnd(SubSeq(s, 1, Len(s) - 1)) ELSE s

TrimUnits(s) == TrimUnitsEnd(TrimUnitsStart(s))

\* "AIza"
AIza == <<65, 73, 122, 97>>

\* " AIzaSyD-9tSrke72PouQMnMX-a7eZS ": blanks around a valid key
KeyPadded == <<32>> \o KeyPlain \o <<32>>

\* "sk-live-0123456789abcdefghijklmnop": long enough, wrong prefix
KeyWrongPrefix ==
    <<115, 107, 45, 108, 105, 118, 101, 45, 48, 49, 50, 51, 52, 53, 54, 55, 56, 57,
      97, 98, 99, 100, 101, 102, 103, 104, 105, 106, 107, 108, 109, 110, 111, 112>>

\* What is typed into the API key field.
KeyInputs == {KeyPlain, KeyPadded, KeyDash, KeyWrongPrefix, <<>>}

\* validation.ts:159-182
ValidateApiKey(apiKey) ==
    IF apiKey = <<>> \/ Len(TrimUnits(apiKey)) = 0
      THEN [valid |-> FALSE, error |-> "validation.apiKey.empty"]
    ELSE IF ~StartsWith(apiKey, AIza)
      THEN [valid |-> FALSE, error |-> "validation.apiKey.invalidPrefix"]
    ELSE IF Len(apiKey) < 30
      THEN [valid |-> FALSE, error |-> "validation.apiKey.tooShort"]
    ELSE [valid |-> TRUE, error |-> ""]

Themes == {"auto", "dark"}

\* chrome.storage.sync of a fresh installation: no server URL, no theme.
NoConfig == [serverUrl |-> Absent, theme |-> ""]

\* handleSave is not running.  status: what showStatus was called with.
IdleOptions ==
    [pc |-> "idle", serverUrl |-> <<>>, apiKey |-> <<>>, theme |-> "",
     status |-> [type |-> "", message |-> ""]]

\* Faulty variant: the settings are written before the API key is looked at.
HandleSaveWritesFirst(urlInput, keyInput, theme) ==
    /\ opt.pc = "idle"
    /\ saves < MaxSaves
    /\ saves' = saves + 1
    /\ LET serverUrl == Trim(urlInput)
           urlValidation == ValidateServerUrl(serverUrl)
           run == [IdleOptions EXCEPT !.serverUrl = serverUrl,
                                      !.apiKey = TrimUnits(keyInput), !.theme = theme]
       IN opt' = IF ~urlValidation.valid
                   THEN [run EXCEPT !.pc = "done",
                                    !.status = [type |-> "error",
                                                message |-> urlValidation.error]]
                 ELSE [run EXCEPT !.pc = "syncSet"]
    /\ UNCHANGED <<config, api, requests, apiOps>>
    /\ UNCHANGED keyVars
    /\ UNCHANGED nonServerVars

\* A click on Save (options/index.ts:34-52): the fields are trimmed and
\* validated; chrome.storage.sync.set is issued when both are valid.
HandleSave(urlInput, keyInput, theme) ==
    /\ opt.pc = "idle"
    /\ saves < MaxSaves
    /\ saves' = saves + 1
    /\ LET serverUrl == Trim(urlInput)
           apiKey == TrimUnits(keyInput)
           urlValidation == ValidateServerUrl(serverUrl)
           apiValidation == ValidateApiKey(apiKey)
           run == [IdleOptions EXCEPT !.serverUrl = serverUrl, !.apiKey = apiKey,
                                      !.theme = theme]
       IN opt' = IF ~urlValidation.valid
                   THEN [run EXCEPT !.pc = "done",
                                    !.status = [type |-> "error",
                                                message |-> urlValidation.error]]
                 ELSE IF ~apiValidation.valid
                   THEN [run EXCEPT !.pc = "done",
                                    !.status = [type |-> "error",
                                                message |-> apiValidation.error]]
                 ELSE [run EXCEPT !.pc = "syncSet"]
    /\ UNCHANGED <<config, api, requests, apiOps>>
    /\ UNCHANGED keyVars
    /\ UNCHANGED nonServerVars

\* chrome.storage.sync.set({serverUrl, theme}) is carried out; storeApiKey is
\* called.
SyncSetAnswers ==
    /\ opt.pc = "syncSet"
    /\ config' = [serverUrl |-> Stored(opt.serverUrl), theme |-> opt.theme]
    /\ opt' = [opt EXCEPT !.pc = "storeApiKey"]
    /\ UNCHANGED <<api, requests, apiOps, saves>>
    /\ UNCHANGED keyVars
    /\ UNCHANGED nonServerVars

\* storeApiKey(apiKey) resolves: the encrypted key is in chrome.storage.local.
StoreApiKeyAnswers(iv) ==
    /\ opt.pc = "storeApiKey"
    /\ local' = Stored(Encrypt(opt.apiKey, iv))
    /\ tampered' = FALSE
    /\ opt' = [opt EXCEPT !.pc = "done",
                          !.status = [type |-> "success",
                                      message |-> "Settings saved successfully!"]]
    /\ UNCHANGED <<config, api, requests, apiOps, saves>>
    /\ UNCHANGED <<sync, kc, keyOps, lastOp>>
    /\ UNCHANGED nonServerVars

\* chrome.storage.sync.set or storeApiKey rejects (options/index.ts:55-58).
SaveFails ==
    /\ opt.pc \in {"syncSet", "storeApiKey"}
    /\ opt' = [opt EXCEPT !.pc = "done",
                          !.status = [type |-> "error",
                                      message |-> "Failed to save settings"]]
    /\ UNCHANGED <<config, api, requests, apiOps, saves>>
    /\ UNCHANGED keyVars
    /\ UNCHANGED nonServerVars

SaveReturns ==
    /\ opt.pc = "done"
    /\ opt' = IdleOptions
    /\ UNCHANGED <<config, api, requests, apiOps, saves>>
    /\ UNCHANGED keyVars
    /\ UNCHANGED nonServerVars

(***************************************************************************)
(* The server API (part_000:39-140).                                       *)
(***************************************************************************)
ServerOps ==
    {"checkWordExists", "addCollocations", "exportCSV", "deleteAll", "getCollocations",
     "testConnection"}

\* The path each operation appends to the server URL, and what it sends the
\* request with.
Endpoint(op) ==
    CASE op = "checkWordExists" -> "/api/check-word"
      [] op = "addCollocations" -> "/api/add-collocations"
      [] op = "exportCSV" -> "/api/export-csv"
      [] op = "deleteAll" -> "/api/delete-all"
      [] op = "getCollocations" -> "/api/collocations"
      [] op = "testConnection" -> "/api/collocations"

Transport(op) ==
    CASE op \in {"checkWordExists", "addCollocations", "deleteAll"} -> "post"
      [] op \in {"getCollocations", "testConnection"} -> "get"
      [] op = "exportCSV" -> "fetch"

Resolved == [resolved |-> TRUE]

IdleApi == [pc |-> "idle", op |-> "none", ret |-> Pending]

\* part_000:42
ServerUrlNotConfigured == MkError("Error", "Server URL not configured", 0, "")

\* What a rejected chrome.storage request rejects with.
StorageRejects == MkError("Error", "chrome.storage", 0, "")

\* What the caller gets when the operation meets the error e: testConnection
\* catches everything and answers false (part_000:137-139).
Failure(op, e) == IF op = "testConnection" THEN JsBoolean(FALSE) ELSE Rejected(e)

\* The call: getServerUrl() issues chrome.storage.sync.get('serverUrl').
ServerCall(op) ==
    /\ api.pc = "idle"
    /\ apiOps < MaxApiOps
    /\ apiOps' = apiOps + 1
    /\ api' = [IdleApi EXCEPT !.pc = "getServerUrl", !.op = op]
    /\ UNCHANGED <<config, requests, opt, saves>>
    /\ UNCHANGED keyVars
    /\ UNCHANGED nonServerVars

\* chrome.storage.sync.get answers (part_000:41-44): without a server URL the
\* operation throws; with one it hands its request to post, get or fetch.
GetServerUrlAnswers ==
    /\ api.pc = "getServerUrl"
    /\ IF ~config.serverUrl.present \/ config.serverUrl.value = <<>>
         THEN /\ api' = [api EXCEPT !.pc = "done",
                                    !.ret = Failure(api.op, ServerUrlNotConfigured)]
              /\ UNCHANGED requests
         ELSE /\ api' = [api EXCEPT !.pc = "request"]
              /\ requests' = Append(requests,
                                    [transport |-> Transport(api.op),
                                     serverUrl |-> config.serverUrl.value,
                                     path |-> Endpoint(api.op)])
    /\ UNCHANGED <<config, apiOps, opt, saves>>
    /\ UNCHANGED keyVars
    /\ UNCHANGED nonServerVars

\* chrome.storage.sync.get rejects.
GetServerUrlFails ==
    /\ api.pc = "getServerUrl"
    /\ api' = [api EXCEPT !.pc = "done", !.ret = Failure(api.op, StorageRejects)]
    /\ UNCHANGED <<config, requests, apiOps, opt, saves>>
    /\ UNCHANGED keyVars
    /\ UNCHANGED nonServerVars

\* The request ends: with a response the operation returns, otherwise it
\* throws what post / get threw, or Error('Failed to export CSV').
RequestEnds(ok) ==
    /\ api.pc = "request"
    /\ api' = [api EXCEPT
                 !.pc = "done",
                 !.ret = IF ok
                           THEN IF api.op = "testConnection" THEN JsBoolean(TRUE)
                                                             ELSE Resolved
                         ELSE IF api.op = "exportCSV"
                           THEN Rejected(MkError("Error", "Failed to export CSV", 0, ""))
                         ELSE Failure(api.op, NetworkError("Failed to fetch"))]
    /\ UNCHANGED <<config, requests, apiOps, opt, saves>>
    /\ UNCHANGED keyVars
    /\ UNCHANGED nonServerVars

ServerReturns ==
    /\ api.pc = "done"
    /\ api' = IdleApi
    /\ UNCHANGED <<config, requests, apiOps, opt, saves>>
    /\ UNCHANGED keyVars
    /\ UNCHANGED nonServerVars

ServerInit ==
    /\ config = NoConfig
    /\ api = IdleApi
    /\ requests = <<>>
    /\ apiOps = 0
    /\ opt = IdleOptions
    /\ saves = 0

OptionsNext ==
    \/ \E urlInput \in UrlInputs, keyInput \in KeyInputs, theme \in Themes :
          HandleSave(urlInput, keyInput, theme)
    \/ SyncSetAnswers
    \/ \E iv \in IVs : StoreApiKeyAnswers(iv)
    \/ SaveFails
    \/ SaveReturns

ServerNext ==
    \/ OptionsNext
    \/ \E op \in ServerOps : ServerCall(op)
    \/ GetServerUrlAnswers
    \/ GetServerUrlFails
    \/ \E ok \in BOOLEAN : RequestEnds(ok)
    \/ ServerReturns

\* The handlers that take input from the user: the popup's Add, the context
\* menu, the options page's Save.  The queue and the settings share no state,
\* so a behaviour exercises the add handlers or the options page.
QueueUnused == adds = 0 /\ ticks = 0

OptionsUnused == saves = 0

HandlerNext ==
    \/ \E d \in TickSteps : OptionsUnused /\ Tick(d)
    \/ \E h \in Handlers, raw \in RawWords : OptionsUnused /\ HandleAddWord(h, raw)
    \/ \E h \in Handlers, raw \in RawWords : OptionsUnused /\ ContextMenuClicked(h, raw)
    \/ \E h \in Handlers, exists \in BOOLEAN : CheckWordExistsAnswers(h, exists)
    \/ \E h \in Handlers : CheckWordExistsFails(h)
    \/ \E h \in Handlers : QueueGet(h)
    \/ \E h \in Handlers : QueueAdd(h)
    \/ \E h \in Handlers : QueueCount(h)
    \/ \E h \in Handlers : HandlerReturns(h)
    \/ \E word \in QueueKeys : RemoveFromQueue(word)
    \/ \E urlInput \in UrlInputs, keyInput \in KeyInputs, theme \in Themes :
          QueueUnused /\ HandleSave(urlInput, keyInput, theme)
    \/ SyncSetAnswers
    \/ \E iv \in IVs : StoreApiKeyAnswers(iv)
    \/ SaveFails
    \/ SaveReturns

(***************************************************************************)
(* handleGenerate (popup/index.ts:124-146).                                *)
(***************************************************************************)
\* handleGenerate is not running.  words: the batch read from the queue;
\* generated, submitted: generateCollocations, addCollocations have resolved;
\* shown: the last toast.
IdleGenerate ==
    [pc |-> "idle", words |-> {}, generated |-> FALSE, submitted |-> FALSE,
     failed |-> FALSE, shown |-> "none"]

\* The click on Generate: db.queue.toArray() is issued.
HandleGenerate ==
    /\ gen.pc = "idle"
    /\ gens < MaxGens
    /\ gens' = gens + 1
    /\ gen' = [IdleGenerate EXCEPT !.pc = "toArray"]
    /\ UNCHANGED queueVars
    /\ UNCHANGED nonGenerateVars

\* toArray() answers (popup/index.ts:125-134): an empty queue ends the run;
\* otherwise generateCollocations(words) is called.
QueueToArray ==
    /\ gen.pc = "toArray"
    /\ gen' = IF DOMAIN queue = {}
                THEN [gen EXCEPT !.pc = "done"]
                ELSE [gen EXCEPT !.pc = "generate", !.words = DOMAIN queue,
                                 !.shown = "info"]
    /\ UNCHANGED <<queueVars, gens>>
    /\ UNCHANGED nonGenerateVars

\* generateCollocations resolves; addCollocations(collocations) is called.
GenerateResolves ==
    /\ gen.pc = "generate"
    /\ gen' = [gen EXCEPT !.pc = "submit", !.generated = TRUE]
    /\ UNCHANGED <<queueVars, gens>>
    /\ UNCHANGED nonGenerateVars

\* addCollocations resolves; db.queue.clear() is issued.
SubmitResolves ==
    /\ gen.pc = "submit"
    /\ gen' = [gen EXCEPT !.pc = "clear", !.submitted = TRUE]
    /\ UNCHANGED <<queueVars, gens>>
    /\ UNCHANGED nonGenerateVars

\* db.queue.clear() is carried out: every item of the table is deleted.
QueueClear ==
    /\ gen.pc = "clear"
    /\ queue' = EmptyTable
    /\ gen' = [gen EXCEPT !.pc = "loadQueue"]
    /\ UNCHANGED <<hd, adds, gens>>
    /\ UNCHANGED nonGenerateVars

\* loadQueue() answers; the success toast is shown.
GenerateLoadQueue ==
    /\ gen.pc = "loadQueue"
    /\ gen' = [gen EXCEPT !.pc = "done", !.shown = "success"]
    /\ UNCHANGED <<queueVars, gens>>
    /\ UNCHANGED nonGenerateVars

\* Faulty variant: a failed generation empties the queue as well.
GenerateFailsAndClears ==
    /\ gen.pc \in {"generate", "submit", "clear", "loadQueue"}
    /\ queue' = EmptyTable
    /\ gen' = [gen EXCEPT !.pc = "done", !.failed = TRUE, !.shown = "error"]
    /\ UNCHANGED <<hd, adds, gens>>
    /\ UNCHANGED nonGenerateVars

\* generateCollocations, addCollocations, clear or loadQueue rejects: the catch
\* shows 'Generation failed' (popup/index.ts:140-142).
GenerateFails ==
    /\ gen.pc \in {"generate", "submit", "clear", "loadQueue"}
    /\ gen' = [gen EXCEPT !.pc = "done", !.failed = TRUE, !.shown = "error"]
    /\ UNCHANGED <<queueVars, gens>>
    /\ UNCHANGED nonGenerateVars

GenerateReturns ==
    /\ gen.pc = "done"
    /\ gen' = IdleGenerate
    /\ UNCHANGED <<queueVars, gens>>
    /\ UNCHANGED nonGenerateVars

GenerateInit ==
    /\ gen = IdleGenerate
    /\ gens = 0

\* The popup and the context menu at one instant: adds, removals and
\* generations.
GenerateNext ==
    \/ \E h \in Handlers, raw \in RawWords : HandleAddWord(h, raw)
    \/ \E h \in Handlers, raw \in RawWords : ContextMenuClicked(h, raw)
    \/ \E h \in Handlers, exists \in BOOLEAN : CheckWordExistsAnswers(h, exists)
    \/ \E h \in Handlers : CheckWordExistsFails(h)
    \/ \E h \in Handlers : QueueGet(h)
    \/ \E h \in Handlers : QueueAdd(h)
    \/ \E h \in Handlers : QueueCount(h)
    \/ \E h \in Handlers : HandlerReturns(h)
    \/ \E word \in QueueKeys : RemoveFromQueue(word)
    \/ HandleGenerate
    \/ QueueToArray
    \/ GenerateResolves
    \/ SubmitResolves
    \/ QueueClear
    \/ GenerateLoadQueue
    \/ GenerateFails
    \/ GenerateReturns

Init ==
    /\ HttpInit /\ CacheInit /\ TimerInit /\ QueueInit /\ FreshInstall
    /\ ServerInit /\ GenerateInit

UpdateInit ==
    /\ HttpInit /\ CacheInit /\ TimerInit /\ QueueInit /\ KeyInit
    /\ ServerInit /\ GenerateInit

SweepInit ==
    /\ HttpInit
    /\ TimerInit
    /\ QueueInit
    /\ FreshInstall
    /\ ServerInit
    /\ GenerateInit
    /\ now = StartTime
    /\ ticks = 0
    /\ calls = 0
    /\ wordCache \in StoredWordCaches
    /\ collocationCache \in StoredCollocationCaches
    /\ rd = [r \in Readers |-> IdleReader]
    /\ sw = IdleSweep

\* The extension after a start, with no cached read going on.
SweepNext ==
    \/ InitDatabase
    \/ InitSetsInterval
    \/ IntervalFires
    \/ SweepScanWords
    \/ SweepDeleteWords
    \/ SweepScanCollocations
    \/ SweepDeleteCollocations
    \/ SweepReturns

\* The keychain and the cache side by side.  They share no state, so a
\* behaviour exercises one of them: the keychain (with a stored payload that
\* can be damaged) or the cached reads and sweeps.
CacheUnused == calls = 0 /\ ticks = 0

KeychainUnused == keyOps = 0

PolicyNext ==
    \/ \E apiKey \in ApiKeys : CacheUnused /\ StoreApiKey(apiKey)
    \/ CacheUnused /\ RetrieveApiKey
    \/ CacheUnused /\ RemoveApiKey
    \/ \E i \in 1..MaxPayloadLength : CacheUnused /\ TamperText(i)
    \/ \E i \in 1..MaxPayloadLength : CacheUnused /\ TamperBytes(i)
    \/ \E iv \in IVs : EncryptAnswers(iv)
    \/ LocalSetAnswers
    \/ LocalGetAnswers
    \/ LocalRemoveAnswers
    \/ StepFails
    \/ KeychainReturns
    \/ \E d \in TickSteps : KeychainUnused /\ Tick(d)
    \/ \E r \in Readers, word \in Words : KeychainUnused /\ CheckWordWithCache(r, word)
    \/ \E r \in Readers, word \in Words : KeychainUnused /\ GetCollocationsWithCache(r, word)
    \/ KeychainUnused /\ ClearExpiredCache
    \/ \E r \in Readers : WordGet(r)
    \/ \E r \in Readers : WordDelete(r)
    \/ \E r \in Readers : \E exists \in BOOLEAN : WordCompute(r, exists)
    \/ \E r \in Readers : WordPut(r)
    \/ \E r \in Readers : CollocationGet(r)
    \/ \E r \in Readers : CollocationDelete(r)
    \/ \E r \in Readers, c \in CollocationLists : CollocationCompute(r, c)
    \/ \E r \in Readers : CollocationPut(r)
    \/ \E r \in Readers : ComputeFails(r)
    \/ \E r \in Readers : ReadReturns(r)
    \/ SweepScanWords
    \/ SweepDeleteWords
    \/ SweepScanCollocations
    \/ SweepDeleteCollocations
    \/ SweepReturns

HttpSpec == Init /\ [][HttpNext]_vars

\* Every pending operation of the host completes: the transport answers, fails or
\* is cut by the timer, a body read ends, a timer set by delay() fires.
FairHttpSpec == HttpSpec /\ WF_vars(HttpNext)

CacheSpec == Init /\ [][CacheNext]_vars

QueueSpec == Init /\ [][QueueNext]_vars

ServerSpec == Init /\ [][ServerNext]_vars

HandlerSpec == Init /\ [][HandlerNext]_vars

GenerateSpec == Init /\ [][GenerateNext]_vars

KeySpec == UpdateInit /\ [][KeyNext]_vars

TamperSpec == UpdateInit /\ [][TamperNext]_vars

PolicySpec == Init /\ [][PolicyNext]_vars

SweepSpec == SweepInit /\ [][SweepNext]_vars

\* Every IndexedDB request of the sweep is carried out, and the interval keeps
\* firing (MaxFirings times).
FairSweepSpec == SweepSpec /\ WF_vars(SweepNext)

(***************************************************************************)
(* Properties of apiRequest.                                               *)
(***************************************************************************)
Terminal == hpc \in {"success", "failed"}

InFlight == hpc \in {"fetching", "reading"}

StrictlyIncreasing(seq) == \A i \in 1..(Len(seq) - 1) : seq[i] < seq[i + 1]

\* C1: when the transport answers 503 on the first `retries` attempts and succeeds
\* on the next, the call returns the success result after exactly retries+1
\* attempts, and the delays slept between the attempts are strictly increasing.
\* (The hypothesis is on the attempts that were made: a call that gives up early
\* under this transport ends with a history that satisfies it, and is caught.)
C1_RetryThenSuccess ==
    (/\ Terminal
     /\ \A i \in 1..Len(trace) :
           /\ i <= opts.retries => trace[i] = Outcome("status", 503)
           /\ i > opts.retries => trace[i] = Outcome("parsed", 200))
    => /\ result = Returned
       /\ attempts = opts.retries + 1
       /\ Len(delays) = opts.retries
       /\ StrictlyIncreasing(delays)

C1_Witness ==
    /\ hpc = "success"
    /\ opts.retries = 3
    /\ trace = <<Outcome("status", 503), Outcome("status", 503), Outcome("status", 503),
                 Outcome("parsed", 200)>>
    /\ Len(delays) = 3

\* C2: when the transport answers 500 on every attempt, the call raises APIError
\* with statusCode 500 after exactly retries+1 attempts.
C2_RetryExhaustion ==
    /\ (\A i \in 1..Len(trace) : trace[i] = Outcome("status", 500))
         => attempts <= opts.retries + 1
    /\ (Terminal /\ \A i \in 1..Len(trace) : trace[i] = Outcome("status", 500))
         => /\ result.kind = "throw"
            /\ result.error.name = "APIError"
            /\ result.error.statusCode = 500
            /\ attempts = opts.retries + 1

C2_Witness ==
    /\ hpc = "failed"
    /\ opts.retries = 2
    /\ trace = <<Outcome("status", 500), Outcome("status", 500), Outcome("status", 500)>>
    /\ result.error.statusCode = 500

\* C3: a response with status 400 ends the call at once with APIError: no delay is
\* slept for it and no attempt follows it; as the first response, it leaves exactly
\* 1 attempt and no delay, whatever retries is.
C3_NonRetryableShortCircuit ==
    \A i \in 1..Len(trace) :
        trace[i] = Outcome("status", 400)
        => /\ i = Len(trace)
           /\ hpc = "failed"
           /\ result.kind = "throw"
           /\ result.error.name = "APIError"
           /\ attempts = i
           /\ Len(delays) = i - 1

C3_Witness ==
    /\ trace = <<Outcome("status", 400)>>
    /\ opts.retries = 3
    /\ hpc = "failed"
    /\ attempts = 1
    /\ delays = <<>>

\* C4: a non-OK response on attempt `attempt` whose status is in the retry set,
\* with attempts remaining, makes the client sleep exactly retryDelay * 2^attempt
\* and then issue the next attempt; every other non-OK response makes it raise
\* APIError with that response's status and the request URL.
C4_ResponseStep ==
    (/\ hpc = "fetching"
     /\ Len(trace') = Len(trace) + 1
     /\ trace'[Len(trace')].o = "status"
     /\ ~(trace'[Len(trace')].status \in 200..299))
    => IF attempt < opts.retries
          /\ trace'[Len(trace')].status \in {408, 429, 500, 502, 503, 504}
         THEN /\ hpc' = "retryWait"
              /\ delays' = Append(delays, opts.retryDelay * Pow2(attempt))
              /\ attempt' = attempt
              /\ result' = NoResult
         ELSE /\ hpc' = "failed"
              /\ delays' = delays
              /\ result' = Thrown([name |-> "APIError", message |-> "HTTP error",
                                   statusCode |-> trace'[Len(trace')].status,
                                   endpoint |-> opts.url])

C4_RetryStep ==
    (hpc = "retryWait" /\ attempt < opts.retries /\ hpc' # hpc)
    => /\ hpc' = "fetching"
       /\ attempt' = attempt + 1
       /\ attempts' = attempts + 1

C4_BackoffOrAPIError == [][C4_ResponseStep /\ C4_RetryStep]_vars

C4_Witness ==
    /\ hpc = "failed"
    /\ opts.retryDelay = 1000
    /\ delays = <<1000, 2000>>
    /\ trace = <<Outcome("status", 503), Outcome("status", 500), Outcome("status", 400)>>
    /\ result = Thrown(APIError(400, opts.url))

\* C5: a transport failure or a timeout with attempts remaining gets the same
\* backoff (retryDelay * 2^attempt) and a retry; on the last attempt a transport
\* failure raises NetworkError carrying the transport error's message, a timeout
\* raises the TimeoutError, a non-OK response raises its APIError.
C5_FailureStep ==
    (/\ InFlight
     /\ hpc' \notin {"fetching", "reading"}
     /\ trace'[Len(trace')].o \in {"TypeError", "TimeoutError"})
    => IF attempt < opts.retries
         THEN /\ hpc' = "retryWait"
              /\ delays' = Append(delays, opts.retryDelay * Pow2(attempt))
              /\ result' = NoResult
         ELSE /\ hpc' = "failed"
              /\ delays' = delays
              /\ result'.kind = "throw"
              /\ trace'[Len(trace')].o = "TypeError"
                   => /\ result'.error.name = "NetworkError"
                      /\ result'.error.message = "Failed to fetch"
              /\ trace'[Len(trace')].o = "TimeoutError"
                   => result'.error.name = "TimeoutError"

C5_ExhaustedStatus ==
    (/\ hpc = "fetching"
     /\ attempt = opts.retries
     /\ hpc' = "failed"
     /\ trace'[Len(trace')].o = "status")
    => /\ result'.error.name = "APIError"
       /\ result'.error.statusCode = trace'[Len(trace')].status

C5_TransportFailureAndTimeout == [][C5_FailureStep /\ C5_ExhaustedStatus]_vars

C5_Witness ==
    /\ hpc = "failed"
    /\ opts.retries = 2
    /\ trace = <<Outcome("TypeError", 0), Outcome("TimeoutError", 0), Outcome("TypeError", 0)>>
    /\ Len(delays) = 2
    /\ result.error.name = "NetworkError"

\* C6: an attempt still in flight (response not yet received and parsed) when
\* `timeout` has elapsed since it started is cancelled: no attempt is in flight,
\* or completes successfully, later than `timeout` after its start.
C6_AttemptBoundedByTimeout ==
    hpc \in {"fetching", "reading", "success"} => elapsed <= opts.timeout

\* C7: a call ends in exactly one terminal state after at most retries+1 attempts:
\* RetryWait is entered and left for a new attempt only while attempt < retries,
\* nothing happens to a call after its terminal state, and every call in progress
\* reaches a terminal state.
C7_Bounded ==
    /\ attempts <= opts.retries + 1
    /\ hpc = "retryWait" => attempt < opts.retries

C7_Step ==
    /\ (attempts' = attempts + 1)
         => \/ hpc = "idle"
            \/ hpc = "retryWait" /\ attempt < opts.retries
    /\ Terminal => (hpc' = "idle" /\ attempts' = 0)
    /\ hpc = "fetching" => hpc' \in {"fetching", "reading", "retryWait", "failed"}
    /\ hpc = "reading" => hpc' \in {"reading", "success", "retryWait", "failed"}

C7_Terminates ==
    /\ []C7_Bounded
    /\ [][C7_Step]_vars
    /\ (hpc \in {"fetching", "reading", "retryWait"}) ~> Terminal

C7_Witness ==
    /\ hpc = "failed"
    /\ opts.retries = 3
    /\ attempts = 4
    /\ trace[4].o = "TimeoutError"

\* C8: a failure to parse the body of a successful response ends the call at once
\* with an error: no delay is slept for it and no attempt follows it, even when
\* attempts remain.
C8_ParseFailureIsHard ==
    \A i \in 1..Len(trace) :
        trace[i].o = "SyntaxError"
        => /\ i = Len(trace)
           /\ hpc = "failed"
           /\ result.kind = "throw"
           /\ attempts = i
           /\ Len(delays) = i - 1

C8_Witness ==
    /\ opts.retries = 3
    /\ trace = <<Outcome("status", 503), Outcome("SyntaxError", 200)>>
    /\ hpc = "failed"
    /\ attempts = 2
    /\ Len(delays) = 1

(***************************************************************************)
(* Properties of the caches.                                               *)
(***************************************************************************)
\* The table a cached read works on, the TTL that applies to an entry of it (the
\* stored ttl in wordCache, 7 days in collocationCache), and the entry's value.
TableOf(r) == IF rd[r].fn = "word" THEN wordCache ELSE collocationCache

TtlOf(r, e) == IF rd[r].fn = "word" THEN e.ttl ELSE 7 * 24 * 60 * 60 * 1000

ValueOf(r, e) == IF rd[r].fn = "word" THEN e.exists ELSE e.collocations

\* C9: a cached read that finds an entry returns its value when
\* now < timestamp + T, and issues the delete when now >= timestamp + T; the
\* delete removes the key and is followed by the compute, whose result is put.
C9_ReadStep(r) ==
    (rd[r].pc = "get" /\ rd'[r].pc # "get" /\ rd[r].word \in DOMAIN TableOf(r))
    => LET e == TableOf(r)[rd[r].word] IN
         IF now < e.timestamp + TtlOf(r, e)
           THEN /\ rd'[r].pc = "done"
                /\ rd'[r].value = Value(ValueOf(r, e))
                /\ UNCHANGED <<wordCache, collocationCache>>
           ELSE rd'[r].pc = "delete"

C9_ExpiredStep(r) ==
    /\ (rd[r].pc = "delete" /\ rd'[r].pc # "delete")
         => /\ rd'[r].pc = "compute"
            /\ IF rd[r].fn = "word" THEN rd[r].word \notin DOMAIN wordCache'
                                    ELSE rd[r].word \notin DOMAIN collocationCache'
    /\ (rd[r].pc = "compute" /\ rd'[r].pc = "put")
         => rd'[r].entry.timestamp = now

C9_CacheExpiry == [][\A r \in Readers : C9_ReadStep(r) /\ C9_ExpiredStep(r)]_vars

C9_Witness ==
    /\ "run" \in DOMAIN wordCache
    /\ now = wordCache["run"].timestamp + wordCache["run"].ttl
    /\ rd[1].pc = "done" /\ rd[1].fn = "word" /\ rd[1].hit
    /\ rd[1].value = Value(wordCache["run"].exists)
    /\ rd[2].pc = "delete" /\ rd[2].fn = "word"

\* C10: one run of the sweep selects and deletes exactly the entries with
\* now >= timestamp + ttl (7 days in collocationCache), now being the time the run
\* read when it started.
C10_SweepStep ==
    /\ (sw.pc = "scanWords" /\ sw'.pc # "scanWords")
         => sw'.expiredWords =
              {w \in DOMAIN wordCache :
                  sw.now >= wordCache[w].timestamp + wordCache[w].ttl}
    /\ (sw.pc = "scanCollocations" /\ sw'.pc # "scanCollocations")
         => sw'.oldCollocations =
              {w \in DOMAIN collocationCache :
                  sw.now >= collocationCache[w].timestamp + 7 * 24 * 60 * 60 * 1000}
    /\ (sw.pc = "deleteWords" /\ sw'.pc # "deleteWords")
         => DOMAIN wordCache' = DOMAIN wordCache \ sw.expiredWords
    /\ (sw.pc = "deleteCollocations" /\ sw'.pc # "deleteCollocations")
         => DOMAIN collocationCache' = DOMAIN collocationCache \ sw.oldCollocations

C10_SweepDeletesExpired == [][C10_SweepStep]_vars

\* C11: a cached read calls the compute function only on a miss or an expired
\* entry.  On a valid entry the read returns the cached value without computing.
\* Otherwise the compute function is called once; its result is stored under
\* the key with timestamp Date.now() and the TTL of the cache, and is returned.
C11_HitStep(r) ==
    (rd[r].pc = "get" /\ rd'[r].pc # "get")
    => LET cached == TableGet(TableOf(r), rd[r].word) IN
         IF cached # Undefined /\ now < cached.timestamp + TtlOf(r, cached)
           THEN /\ rd'[r].pc = "done"
                /\ rd'[r].hit
                /\ rd'[r].value = Value(ValueOf(r, cached))
                /\ UNCHANGED <<wordCache, collocationCache>>
           ELSE rd'[r].pc = IF cached = Undefined THEN "compute" ELSE "delete"

C11_ComputeStep(r) ==
    /\ (rd'[r].pc = "compute" /\ rd[r].pc # "compute") => rd[r].pc \in {"get", "delete"}
    /\ (rd[r].pc = "compute" /\ rd'[r].pc # "compute")
         => \/ /\ rd'[r].pc = "put"
               /\ rd'[r].entry.word = rd[r].word
               /\ rd'[r].entry.timestamp = now
               /\ rd[r].fn = "word" => rd'[r].entry.ttl = 24 * 60 * 60 * 1000
               /\ UNCHANGED <<wordCache, collocationCache>>
            \/ /\ rd'[r].pc = "done"
               /\ rd'[r].value = Threw
               /\ UNCHANGED <<wordCache, collocationCache>>
    /\ (rd[r].pc = "put" /\ rd'[r].pc # "put")
         => /\ rd'[r].pc = "done"
            /\ ~rd'[r].hit
            /\ rd[r].word \in DOMAIN TableOf(r)'
            /\ TableOf(r)'[rd[r].word] = rd[r].entry
            /\ rd'[r].value = Value(ValueOf(r, rd[r].entry))
    /\ (rd[r].pc = "done" /\ rd'[r].pc # "done") => rd'[r].pc = "idle"

C11_ComputeOnlyOnMissOrExpiry ==
    [][\A r \in Readers : C11_HitStep(r) /\ C11_ComputeStep(r)]_vars

\* One read was answered from the cache; another, after the entry expired,
\* computed, stored and returned its result.
C11_Witness ==
    /\ rd[1].pc = "done" /\ rd[1].fn = "word" /\ rd[1].hit
    /\ rd[2].pc = "done" /\ rd[2].fn = "word" /\ ~rd[2].hit
    /\ rd[2].entry # Undefined
    /\ rd[2].entry.timestamp > 0
    /\ wordCache["run"] = rd[2].entry
    /\ rd[2].value = Value(rd[2].entry.exists)

\* C12: a put under a key that is already stored replaces the entry: after
\* two writes of one key, in sequence or from two cached reads that both
\* missed and both computed, the table holds one entry under the key, the one of
\* the write carried out last.
C12_PutStep(r) ==
    (rd[r].pc = "put" /\ rd'[r].pc # "put")
    => /\ DOMAIN TableOf(r)' = DOMAIN TableOf(r) \cup {rd[r].word}
       /\ TableOf(r)'[rd[r].word] = rd[r].entry
       /\ \A k \in DOMAIN TableOf(r) \ {rd[r].word} : TableOf(r)'[k] = TableOf(r)[k]

C12_LastWriteWins == [][\A r \in Readers : C12_PutStep(r)]_vars

\* Two cached reads of one key missed at the same instant and computed
\* different results; both puts are done and the table holds one of the two.
C12_Witness ==
    /\ rd[1].pc = "done" /\ rd[2].pc = "done"
    /\ rd[1].fn = "word" /\ rd[2].fn = "word"
    /\ ~rd[1].hit /\ ~rd[2].hit
    /\ rd[1].entry # Undefined /\ rd[2].entry # Undefined
    /\ rd[1].entry.timestamp = rd[2].entry.timestamp
    /\ rd[1].entry.exists # rd[2].entry.exists
    /\ wordCache["run"] \in {rd[1].entry, rd[2].entry}

(***************************************************************************)
(* Properties of initDatabase and the hourly sweep.                        *)
(***************************************************************************)
\* C13: initDatabase runs the sweep at once and sets the interval when that
\* sweep has settled; every firing of the interval, one hour after the last,
\* runs the sweep again.  So an entry that has expired (now >= timestamp +
\* ttl; 7 days in collocationCache) and is not read again is deleted, as long
\* as the interval still fires.
C13_TimerStep ==
    /\ (idb.pc = "closed" /\ idb'.pc # "closed")
         => sw'.pc = "scanWords" /\ sw'.now = now /\ now' = now
    /\ (idb.pc = "sweeping" /\ idb'.pc # "sweeping")
         => idb'.pc = "ready" /\ sw.pc = "idle"
    /\ idb'.firings # idb.firings
         => /\ idb.pc = "ready"
            /\ idb'.firings = idb.firings + 1
            /\ now' = now + 60 * 60 * 1000
            /\ sw'.pc = "scanWords" /\ sw'.now = now'

C13_WordExpired(w) ==
    /\ idb.pc # "closed"
    /\ idb.firings < MaxFirings
    /\ w \in DOMAIN wordCache
    /\ now >= wordCache[w].timestamp + wordCache[w].ttl

C13_CollocationExpired(w) ==
    /\ idb.pc # "closed"
    /\ idb.firings < MaxFirings
    /\ w \in DOMAIN collocationCache
    /\ now >= collocationCache[w].timestamp + 7 * 24 * 60 * 60 * 1000

C13_ExpiredEventuallySwept ==
    /\ [][C13_TimerStep]_vars
    /\ \A w \in Words : C13_WordExpired(w) ~> (w \notin DOMAIN wordCache)
    /\ \A w \in Words : C13_CollocationExpired(w) ~> (w \notin DOMAIN collocationCache)

\* The interval has fired twice; the word entry that was exactly at timestamp +
\* ttl at the first firing, and so was kept by that sweep, is deleted.
C13_Witness ==
    /\ idb.pc = "ready" /\ idb.firings = 2
    /\ sw.pc = "scanCollocations"
    /\ sw.expiredWords = {"run"}
    /\ sw.now = StartTime + 2 * SWEEP_INTERVAL
    /\ "run" \notin DOMAIN wordCache

(***************************************************************************)
(* Properties of the queue.                                                *)
(***************************************************************************)
\* C14: an add of a word that the queue already holds, from the popup or from
\* the context menu, leaves one item under that word and shows no error.
C14_DuplicateStep(h) ==
    (/\ hd[h].pc \in {"get", "add"}
     /\ hd'[h].pc # hd[h].pc
     /\ hd[h].word \in DOMAIN queue)
    => /\ hd[h].word \in DOMAIN queue'
       /\ hd'[h].shown # "error"

C14_DuplicateAddIsNoError == [][\A h \in Handlers : C14_DuplicateStep(h)]_vars

\* C15: words that differ only in letter case are one key of the queue: the
\* queue never holds two items whose words are equal up to case.
ToLowerCase(w) ==
    [i \in 1..Len(w) |->
        IF w[i] \in UpperCase
          THEN Alphabet[CHOOSE j \in 1..26 : Capitals[j] = w[i]]
          ELSE w[i]]

C15_CaseVariantsShareKey ==
    \A k1, k2 \in DOMAIN queue : ToLowerCase(k1) = ToLowerCase(k2) => k1 = k2

(***************************************************************************)
(* Properties of the keychain.                                             *)
(***************************************************************************)
\* The strings the keychain is given to protect.
Plaintexts == ApiKeys \cup LegacyKeys

\* C16: whatever storeApiKey, migrateApiKey and removeApiKey have done, the
\* key secure_aiApiKey is absent or holds an output of encrypt: the base64
\* text of IV, ciphertext and tag of one of the plaintexts.  It never holds
\* a plaintext.
C16_StoredValueIsEncrypted ==
    local.present
    => /\ local.value \notin Plaintexts
       /\ \E plaintext \in Plaintexts, iv \in IVs :
             /\ local.value = Encrypt(plaintext, iv)
             /\ local.value # plaintext
             /\ LET combined == Atob(local.value) IN
                  /\ combined.ok
                  /\ Len(combined.bytes) = IV_LENGTH + Len(Utf8Encode(plaintext)) + TagLength
                  /\ SubSeq(combined.bytes, 1, IV_LENGTH) = iv

\* storeApiKey has stored a key, and migrateApiKey has then written the legacy
\* key over it.
C16_Witness ==
    /\ kc.fn = "migrate" /\ kc.pc = "syncRemove"
    /\ kc.after = [fn |-> "store", failed |-> FALSE]
    /\ local = Stored(kc.payload)
    /\ sync.present

\* C17: decrypt(encrypt(s)) = s for every string s; so a retrieveApiKey that
\* finds what storeApiKey or migrateApiKey stored, and meets no failure, returns
\* the string that was stored.
C17_EncryptStep ==
    (kc.pc = "encrypt" /\ kc'.pc = "localSet")
    => LET d == Decrypt(kc'.payload) IN d.ok /\ d.value = kc.arg

C17_RetrieveStep ==
    (/\ kc.fn = "retrieve" /\ kc.pc = "localGet"
     /\ kc'.pc = "done" /\ ~kc'.failed
     /\ local.present)
    => \E plaintext \in Plaintexts, iv \in IVs :
          /\ local.value = Encrypt(plaintext, iv)
          /\ kc'.ret = JsString(plaintext)

C17_RoundTrip == [][C17_EncryptStep /\ C17_RetrieveStep]_vars

\* C18: when one byte of a payload that encrypt produced has been flipped,
\* decrypt fails with a CryptoError: it returns no plaintext, corrupted or
\* partial.
C18_TamperedStep(name) ==
    (/\ kc.fn = "retrieve" /\ kc.pc = "localGet"
     /\ kc'.pc = "done" /\ ~kc'.failed
     /\ local.present /\ tampered)
    => /\ ~kc'.dec.ok
       /\ kc'.dec.value = <<>>
       /\ kc'.dec.error.name = name
       /\ kc'.ret = JsNull

C19_MigrationMovesSecret ==
    (kc.fn = "migrate" /\ kc.pc = "done" /\ ~kc.failed)
    => IF kc.syncData.present
         THEN /\ kc.ret = JsBoolean(TRUE)
              /\ ~sync.present
              /\ local.present
              /\ Decrypt(local.value).ok
              /\ Decrypt(local.value).value = kc.syncData.value
         ELSE kc.ret = JsBoolean(FALSE)

\* C20: a migrateApiKey that starts when the call that returned last was a
\* migrateApiKey without a failure changes neither store and returns false.
C20_SecondRunStep ==
    (kc.fn = "migrate" /\ kc.after = [fn |-> "migrate", failed |-> FALSE])
    => /\ UNCHANGED <<local, sync>>
       /\ kc'.pc = "done" => kc'.ret = JsBoolean(FALSE)
       /\ kc'.pc \in {"syncGet", "done", "idle"}

C20_MigrationIsIdempotent == [][C20_SecondRunStep]_vars

\* The first run moved the legacy key; the second run has returned false.
C20_Witness ==
    /\ kc.fn = "migrate" /\ kc.pc = "done" /\ ~kc.failed
    /\ kc.after = [fn |-> "migrate", failed |-> FALSE]
    /\ kc.ret = JsBoolean(FALSE)
    /\ ~sync.present
    /\ local.present
    /\ Decrypt(local.value).value = KeyDash

\* C21: migrateApiKey never throws to its caller.  It settles with true or
\* false, and with false when the read of the legacy location, encrypt, the
\* write of the encrypted store or the removal of the legacy value failed.
C21_MigrateStep ==
    (kc.fn = "migrate" /\ kc'.pc = "done" /\ kc.pc # "done")
    => /\ kc'.ret \in {JsBoolean(TRUE), JsBoolean(FALSE)}
       /\ kc'.failed
            => /\ kc.pc \in {"syncGet", "encrypt", "localSet", "syncRemove"}
               /\ kc'.ret = JsBoolean(FALSE)

C21_MigrateNeverThrows == [][C21_MigrateStep]_vars

\* The removal of the legacy value failed after the encrypted store was
\* written: both locations hold the key and the call has returned false.
C21_Witness ==
    /\ kc.fn = "migrate" /\ kc.pc = "done" /\ kc.failed
    /\ kc.after = NoOp
    /\ kc.ret = JsBoolean(FALSE)
    /\ sync.present
    /\ local = Stored(kc.payload)
    /\ Decrypt(local.value).value = sync.value

(***************************************************************************)
(* Propagation of failures.                                                *)
(***************************************************************************)
\* C22: retrieveApiKey settles with null on every failure inside it (the
\* storage read rejects, the stored value does not decode or decrypt) and
\* never rejects; storeApiKey rejects in the very step in which encrypt or the
\* storage write fails, writing nothing; a cached read rejects in the very
\* step in which its compute function rejects, writing nothing and calling the
\* compute function no second time.
C22_RetrieveStep ==
    (kc.fn = "retrieve" /\ kc.pc = "localGet" /\ kc'.pc = "done")
    => /\ kc'.ret = JsNull \/ (kc'.dec.ok /\ kc'.ret = JsString(kc'.dec.value))
       /\ (kc'.failed \/ (local.present /\ ~kc'.dec.ok)) => kc'.ret = JsNull

C22_StoreStep ==
    (kc.fn = "store" /\ kc.pc \in {"encrypt", "localSet"} /\ kc'.failed)
    => /\ kc'.pc = "done"
       /\ kc'.ret = Rejected(MkError("Error", "Failed to store aiApiKey securely", 0, ""))
       /\ UNCHANGED local

C22_ComputeStep(r) ==
    /\ (rd[r].pc = "compute" /\ rd'[r].pc # "compute" /\ rd'[r].entry = Undefined)
       => /\ rd'[r].pc = "done"
          /\ rd'[r].value = Threw
          /\ UNCHANGED <<wordCache, collocationCache>>
    /\ (rd[r].value # Threw /\ rd'[r].value = Threw) => rd[r].pc = "compute"
    /\ rd[r].value = Threw => rd'[r] \in {rd[r], IdleReader}

C22_FailSafeRetrievalOnly ==
    [][C22_RetrieveStep /\ C22_StoreStep /\ \A r \in Readers : C22_ComputeStep(r)]_vars

\* A storeApiKey whose storage write failed has rejected; the retrieveApiKey
\* after it found a damaged payload and has returned null.
C22_Witness ==
    /\ kc.fn = "retrieve" /\ kc.pc = "done" /\ ~kc.failed
    /\ kc.after = [fn |-> "store", failed |-> TRUE]
    /\ local.present /\ tampered
    /\ ~kc.dec.ok
    /\ kc.ret = JsNull

(***************************************************************************)
(* Properties of the server API and of the handlers' validation.           *)
(***************************************************************************)
\* The server API operations that let their errors through.
ThrowingOps == ServerOps \ {"testConnection"}

\* C23: when no server URL is configured, each of checkWordExists,
\* addCollocations, getCollocations, deleteAll and exportCSV fails with an
\* error of the given class, and hands no request to the network.
C23_NoUrlStep(name) ==
    (/\ api.op \in ThrowingOps
     /\ api.pc = "getServerUrl" /\ api'.pc # "getServerUrl"
     /\ api'.ret # Rejected(StorageRejects)
     /\ ~config.serverUrl.present)
    => /\ api'.pc = "done"
       /\ \E e \in {ServerUrlNotConfigured, [ServerUrlNotConfigured EXCEPT !.name = name]} :
             api'.ret = Rejected(e) /\ e.name = name
       /\ requests' = requests

C23_NoUrlIsConfigError == [][C23_NoUrlStep("ConfigError")]_vars

\* C23 as the code has it (part_000:42): a plain Error.
C23_NoUrlIsError == [][C23_NoUrlStep("Error")]_vars

\* The word an add handler took from its input passes the validation the
\* handler applies: validateWord in the popup, isValidEnglishWord in the
\* context menu.
WordAccepted(run) ==
    IF run.via = "popup" THEN ValidateWord(run.word).valid ELSE IsValidEnglishWord(run.word)

SettingsAccepted(run) ==
    ValidateServerUrl(run.serverUrl).valid /\ ValidateApiKey(run.apiKey).valid

\* What the handlers read and write outside themselves: the queue, the caches,
\* both storage areas, the requests handed to the network.
Stores == <<queue, wordCache, collocationCache, local, sync, config, requests>>

\* C24: an add handler whose word fails validation, and a handleSave whose
\* server URL or API key fails validation, end in the step that validates:
\* they show the error, never call checkWordExists, chrome.storage or the
\* queue, and leave every store as it was.
C24_AddStep(h) ==
    /\ (hd[h].pc = "idle" /\ hd'[h].pc # "idle" /\ ~WordAccepted(hd'[h]))
         => /\ hd'[h].pc = "done" /\ hd'[h].shown = "error"
            /\ UNCHANGED Stores
    /\ hd'[h].pc \notin {"idle", "done"} => WordAccepted(hd'[h])
    /\ (hd[h].pc \notin {"idle", "done"} /\ queue' # queue /\ hd'[h] # hd[h])
         => WordAccepted(hd[h])

C24_SaveStep ==
    /\ (opt.pc = "idle" /\ opt'.pc # "idle" /\ ~SettingsAccepted(opt'))
         => /\ opt'.pc = "done" /\ opt'.status.type = "error"
            /\ opt'.status.message \in
                  {ValidateServerUrl(opt'.serverUrl).error, ValidateApiKey(opt'.apiKey).error}
            /\ UNCHANGED Stores
    /\ opt'.pc \in {"syncSet", "storeApiKey"} => SettingsAccepted(opt')
    /\ (config' # config \/ local' # local) => SettingsAccepted(opt)

C24_ValidationPrecedesIO == [][C24_SaveStep /\ \A h \in Handlers : C24_AddStep(h)]_vars

\* Save was clicked with a valid server URL and an API key that is too short:
\* the error is shown and nothing was stored.
C24_Witness ==
    /\ opt.pc = "done"
    /\ ValidateServerUrl(opt.serverUrl).valid
    /\ opt.status = [type |-> "error", message |-> "validation.apiKey.tooShort"]
    /\ config = NoConfig
    /\ local = Absent

(***************************************************************************)
(* Properties of handleGenerate and of the queue's items.                  *)
(***************************************************************************)
\* C25: handleGenerate deletes queue items in one step only, the clear that
\* follows a generateCollocations and an addCollocations that both resolved;
\* the step in which one of them rejects, and every step of a failed run,
\* leaves the queue as it is.
C25_GenerateStep ==
    /\ (gen' # gen /\ queue' # queue)
         => /\ gen.pc = "clear" /\ gen.generated /\ gen.submitted /\ ~gen.failed
            /\ queue' = EmptyTable
    /\ gen'.pc = "clear" => gen'.generated /\ gen'.submitted /\ ~gen'.failed
    /\ (gen.pc \in {"generate", "submit"} /\ gen'.failed)
         => gen'.pc = "done" /\ gen'.shown = "error" /\ queue' = queue
    /\ (gen.failed /\ gen' # gen) => gen' = IdleGenerate /\ queue' = queue

C25_ClearOnlyAfterSuccess == [][C25_GenerateStep]_vars

\* generateCollocations resolved and addCollocations rejected: the run has
\* ended with the error and its batch is still in the queue.
C25_Witness ==
    /\ gen.pc = "done" /\ gen.failed
    /\ gen.generated /\ ~gen.submitted
    /\ gen.words # {}
    /\ gen.words \subseteq DOMAIN queue

\* C27: every word the clear of handleGenerate deletes is a word of the batch
\* it passed to generateCollocations; a word added since is still in the queue
\* afterwards.
C27_ClearStep ==
    (gen.pc = "clear" /\ gen'.pc = "loadQueue")
    => /\ (DOMAIN queue \ DOMAIN queue') \subseteq gen.words
       /\ (DOMAIN queue \ gen.words) \subseteq DOMAIN queue'

C27_ClearRemovesOnlyBatch == [][C27_ClearStep]_vars

\* C28: every item of the queue has status 'pending' and no error field,
\* whatever adds, removals and generations have happened.
C28_AllItemsPending ==
    \A word \in DOMAIN queue :
        /\ queue[word].status = "pending"
        /\ DOMAIN queue[word] = {"word", "addedAt", "status"}
        /\ queue[word].word = word

\* A second generation has failed, and the queue holds a word that was added
\* after that generation read its batch.
C28_Witness ==
    /\ gens >= 2
    /\ gen.pc = "done" /\ gen.failed
    /\ adds >= 2
    /\ \E word \in DOMAIN queue : word \notin gen.words

(***************************************************************************)
(* Concurrent cached reads and sweeps.                                     *)
(***************************************************************************)
\* C26: every entry that a step deletes from a cache (the delete of a cached
\* read that found its entry expired, the bulkDelete of a sweep) is expired at
\* that moment: a fresh entry another caller has written since is not removed.
C26_DeleteStep ==
    /\ \A word \in DOMAIN wordCache \ DOMAIN wordCache' :
          ~WordCacheValid(now, wordCache[word])
    /\ \A word \in DOMAIN collocationCache \ DOMAIN collocationCache' :
          ~CollocationCacheValid(now, collocationCache[word])

C26_OnlyExpiredDeleted == [][C26_DeleteStep]_vars

====
